---- MODULE Spec2Model ----
(***************************************************************************)
(* Sassafras pallet (substrate/frame/sassafras/src/lib.rs): the epoch and  *)
(* ticket-lottery state machine.  Storage items are the variables, the     *)
(* hooks, dispatchables and public queries are the actions.                *)
(*                                                                         *)
(* Modelling conventions                                                   *)
(*   Option<T>        None is <<>>, Some(x) is <<x>>                       *)
(*   TicketId         0 .. MaxTicketId  (MaxTicketId stands for u128::MAX) *)
(*   TicketsIds       per epoch tag the sequence of the entries written so *)
(*                    far; entry (tag, i) of the map is TicketsIds[tag][i+1]*)
(*                    (keys are only ever written as a prefix 0..n-1 and   *)
(*                    never removed)                                       *)
(*   TicketsData      the set of keys of the map (bodies are opaque)       *)
(*   UnsortedSegments function from the keys present to their segment;     *)
(*                    a missing key reads as the empty segment (ValueQuery)*)
(***************************************************************************)
EXTENDS Integers, Sequences, FiniteSets, TLC

(***************************************************************************)
(* Bounds of the model.                                                    *)
(***************************************************************************)
\* Config::EpochLength, the number of slots of an epoch.
EpochLength == 3
\* SEGMENT_MAX_SIZE (128 in the source) scaled down so that several segments exist.
SEGMENT_MAX_SIZE == 2
\* TicketId::MAX (u128::MAX in the source) scaled down.
MaxTicketId == 4
\* frame_system's block number is followed up to this value and stays there: the
\* pallet only compares it with 1.
BlockNumberCap == 2
\* Longest batch of envelopes given to one submit_tickets call.
MaxBatch == 2
\* Number of values of a Randomness ([u8; RANDOMNESS_LENGTH] in the source).
RandomnessSpace == 5

\* Integer widths.  TLC's integers are 32 bits wide, so the two widths of the
\* source are scaled: U32 stands for 2^32 (the modulus of u32) and U64MAX for
\* u64::MAX; both stay far above every slot, index and count of the model.
U32 == 2 ^ 20
U64MAX == 2 ^ 30 - 1

None == <<>>
Some(x) == <<x>>
Unwrap(o) == o[1]

\* Slot of the claim of block 1.
FirstSlots == {5}
\* A block's slot is ahead of its parent's by at most this (two epochs: enough to skip one).
MaxSlotJump == 2 * EpochLength
\* The chain is followed for this many slots from the genesis slot: two epochs
\* and the first slot of the third.
ChainSlots == 2 * EpochLength + 1

TicketId == 0 .. MaxTicketId
Tags == {0, 1}

\* Genesis configuration (GenesisConfig.authorities, GenesisConfig.epoch_config).
GenesisAuthorities == <<1, 2>>
GenesisEpochConfig == [redundancy_factor |-> 1, attempts_number |-> 1]
\* Configurations offered to plan_config_change; the last one is invalid.
Configs ==
    { [redundancy_factor |-> 1, attempts_number |-> 2],
      [redundancy_factor |-> 0, attempts_number |-> 1] }
Origins == {"None", "Root", "Signed"}

\* A ticket envelope as the pallet sees it under the next epoch's randomness:
\* whether the ring signature carries a VRF output, the id make_ticket_id derives
\* from it, and whether ring_vrf_verify accepts the proof.
\* Every id comes in an envelope with a valid proof; one envelope has a proof that
\* does not verify and one has no VRF output.
Envelopes ==
    [ticket_id : TicketId, has_output : {TRUE}, proof_ok : {TRUE}]
        \cup { [ticket_id |-> 1, has_output |-> TRUE, proof_ok |-> FALSE],
               [ticket_id |-> 0, has_output |-> FALSE, proof_ok |-> FALSE] }
RECURSIVE SeqsUpTo(_, _)
SeqsUpTo(S, n) ==
    IF n = 0 THEN { <<>> }
    ELSE LET shorter == SeqsUpTo(S, n - 1)
         IN shorter \cup { Append(s, x) : s \in shorter, x \in S }
Batches == SeqsUpTo(Envelopes, MaxBatch)
\* Calls of submit_tickets: every batch from the unsigned origin, one batch from the others.
SubmitInputs ==
    ({"None"} \X Batches)
        \cup ({"Root", "Signed"}
                \X { << [ticket_id |-> 0, has_output |-> TRUE, proof_ok |-> TRUE] >> })

VARIABLES
    block_number,               \* frame_system::Pallet::block_number()
    pc,                         \* "idle" between blocks, "block" inside one
    EpochIndex,
    Authorities,
    NextAuthorities,
    GenesisSlot,
    CurrentSlot,
    EpochConfig,
    NextEpochConfig,
    PendingEpochConfigChange,
    TicketsMeta,
    TicketsIds,
    TicketsData,
    UnsortedSegments,
    SortedCandidates,
    RingContext,
    RingVerifierData,
    ClaimTemporaryData,
    CurrentRandomness,
    NextRandomness,
    RandomnessAccumulator,
    EpochChangeTrigger,         \* Config::EpochChangeTrigger: "Internal" or "External"
    Digest,                     \* the NextEpochDescriptor logs deposited in the header of the
                                \* block being built (frame_system empties it for each block)
    admitted,                   \* history: ids accepted by submit_tickets since the last rotation
    validity                    \* the TransactionValidity validate_unsigned returned last, if any

vars ==
    << block_number, pc, EpochIndex, Authorities, NextAuthorities, GenesisSlot,
       CurrentSlot, EpochConfig, NextEpochConfig, PendingEpochConfigChange,
       TicketsMeta, TicketsIds, TicketsData, UnsortedSegments, SortedCandidates,
       RingContext, RingVerifierData, ClaimTemporaryData, CurrentRandomness,
       NextRandomness, RandomnessAccumulator, EpochChangeTrigger, Digest, admitted,
       validity >>

(***************************************************************************)
(* Helpers: sequences, integer arithmetic of the source's widths.          *)
(***************************************************************************)
Min(a, b) == IF a < b THEN a ELSE b
Range(s) == { s[i] : i \in DOMAIN s }
DivCeil(a, b) == (a + b - 1) \div b
SatSub(a, b) == IF a >= b THEN a - b ELSE 0
Prefix(s, n) == SubSeq(s, 1, Min(n, Len(s)))

RECURSIVE InsertSorted(_, _)
InsertSorted(x, s) ==
    IF s = <<>> THEN <<x>>
    ELSE IF x <= Head(s) THEN <<x>> \o s
    ELSE <<Head(s)>> \o InsertSorted(x, Tail(s))

RECURSIVE sort_unstable(_)
sort_unstable(s) ==
    IF s = <<>> THEN <<>> ELSE InsertSorted(Head(s), sort_unstable(Tail(s)))

DefaultTicketsMeta == [unsorted_tickets_count |-> 0, tickets_count |-> [t \in Tags |-> 0]]

SegmentGet(segs, k) == IF k \in DOMAIN segs THEN segs[k] ELSE <<>>
SegmentRemove(segs, k) == [j \in DOMAIN segs \ {k} |-> segs[j]]
SegmentInsert(segs, k, v) == [j \in DOMAIN segs \cup {k} |-> IF j = k THEN v ELSE segs[j]]

MaxTicketsFor == IF EpochLength < U32 THEN EpochLength ELSE U32 - 1

(***************************************************************************)
(* Epoch and slot arithmetic.                                              *)
(***************************************************************************)
epoch_start(epoch_index, genesis_slot) == epoch_index * EpochLength + genesis_slot

\* slot_index(slot) in epoch `epoch_index` of a chain started at `genesis_slot`:
\* `slot.checked_sub(current_epoch_start).unwrap_or(u64::MAX)`
slot_index(slot, epoch_index, genesis_slot) ==
    IF slot >= epoch_start(epoch_index, genesis_slot)
    THEN slot - epoch_start(epoch_index, genesis_slot)
    ELSE U64MAX

current_slot_index == slot_index(CurrentSlot, EpochIndex, GenesisSlot)

(***************************************************************************)
(* Ticket store.  A store is the record [ids, data, segs, cands] of the    *)
(* storage items TicketsIds, TicketsData, UnsortedSegments and             *)
(* SortedCandidates; the metadata travels separately because the source    *)
(* passes it by reference and leaves saving it to the caller.              *)
(***************************************************************************)
Store == [ids |-> TicketsIds, data |-> TicketsData, segs |-> UnsortedSegments,
          cands |-> SortedCandidates]

\* `upper_bound` at entry of sort_tickets: the last candidate if the vector is full.
InitialUpperBound(cands, max_tickets) ==
    IF Len(cands) >= max_tickets THEN cands[max_tickets] ELSE MaxTicketId

\* Whether a segment's ticket is pushed to the candidates.
BelowUpperBound(ticket_id, upper_bound) == ticket_id < upper_bound

\* The written part of TicketsIds for a tag after inserting `sorted` at 0..n-1:
\* entries beyond n keep their old value.
WriteTicketsIds(old, sorted) == sorted \o SubSeq(old, Len(sorted) + 1, Len(old))

\* A variant of EvictedTail that starts one entry early.
EvictedTail_FromLastKept(sorted, max_tickets) ==
    Range(SubSeq(sorted, max_tickets, Len(sorted)))

\* `sorted_candidates[max_tickets..]`: the ids whose bodies a truncation removes.
EvictedTail(sorted, max_tickets) ==
    Range(SubSeq(sorted, max_tickets + 1, Len(sorted)))

\* The `for _ in 0..max_segments` loop of sort_tickets, n iterations left.
\* st = [unsorted_segments_count, unsorted_tickets_count, cands, data, segs,
\*       require_sort, upper_bound]
RECURSIVE ConsumeSegments(_, _, _)
ConsumeSegments(n, max_tickets, st) ==
    IF n = 0 THEN st
    ELSE
      LET count == st.unsorted_segments_count - 1
          segment == SegmentGet(st.segs, count)
          kept == SelectSeq(segment, LAMBDA t : BelowUpperBound(t, st.upper_bound))
          stale == { t \in Range(segment) : ~BelowUpperBound(t, st.upper_bound) }
          pushed == st.cands \o kept
          over == Len(pushed) > max_tickets
          sorted == sort_unstable(pushed)
          tail == EvictedTail(sorted, max_tickets)
      IN ConsumeSegments(n - 1, max_tickets,
            [ unsorted_segments_count |-> count,
              unsorted_tickets_count |-> (st.unsorted_tickets_count - Len(segment)) % U32,
              segs |-> SegmentRemove(st.segs, count),
              cands |-> IF over THEN SubSeq(sorted, 1, max_tickets) ELSE pushed,
              data |-> IF over THEN (st.data \ stale) \ tail ELSE st.data \ stale,
              require_sort |-> IF over THEN FALSE ELSE st.require_sort,
              upper_bound |-> IF over THEN sorted[max_tickets] ELSE st.upper_bound ])

\* A variant of FinalSort that leaves the candidates as they are.
FinalSort_Never(require_sort, cands) == cands

\* `if require_sort { sorted_candidates.sort_unstable() }`
FinalSort(require_sort, cands) ==
    IF require_sort THEN sort_unstable(cands) ELSE cands

\* sort_tickets(max_segments, epoch_tag, &mut metadata): returns the new store
\* and the caller's metadata, [meta, ids, data, segs, cands].
sort_tickets(max_segments, epoch_tag, metadata, store) ==
    LET unsorted_segments_count == DivCeil(metadata.unsorted_tickets_count, SEGMENT_MAX_SIZE)
        segments == Min(max_segments, unsorted_segments_count)
        max_tickets == MaxTicketsFor
        st == ConsumeSegments(segments, max_tickets,
                [ unsorted_segments_count |-> unsorted_segments_count,
                  unsorted_tickets_count |-> metadata.unsorted_tickets_count,
                  segs |-> store.segs,
                  cands |-> store.cands,
                  data |-> store.data,
                  require_sort |-> segments # 0,
                  upper_bound |-> InitialUpperBound(store.cands, max_tickets) ])
        sorted_candidates == FinalSort(st.require_sort, st.cands)
    IN IF st.unsorted_tickets_count = 0
       THEN [ meta |-> [ unsorted_tickets_count |-> 0,
                         tickets_count |->
                            [metadata.tickets_count EXCEPT ![epoch_tag] = Len(sorted_candidates)] ],
              ids |-> [store.ids EXCEPT ![epoch_tag] = WriteTicketsIds(@, sorted_candidates)],
              data |-> st.data,
              segs |-> st.segs,
              cands |-> <<>> ]
       ELSE [ meta |-> [metadata EXCEPT !.unsorted_tickets_count = st.unsorted_tickets_count],
              ids |-> store.ids,
              data |-> st.data,
              segs |-> st.segs,
              cands |-> Prefix(sorted_candidates, max_tickets) ]

\* A variant of SegmentTodo that takes a whole segment's worth of tickets.
SegmentTodo_WholeSegment(len, rem) == Min(len, SEGMENT_MAX_SIZE)

\* `let todo = tickets.len().min((SEGMENT_MAX_SIZE - rem) as usize)`
SegmentTodo(len, rem) == Min(len, SEGMENT_MAX_SIZE - rem)

\* The `while !tickets.is_empty()` loop of append_tickets.
\* Returns [meta, segs].
RECURSIVE AppendLoop(_, _, _, _)
AppendLoop(tickets, segment_idx, metadata, segs) ==
    IF tickets = <<>> THEN [meta |-> metadata, segs |-> segs]
    ELSE
      LET rem == metadata.unsorted_tickets_count % SEGMENT_MAX_SIZE
          todo == SegmentTodo(Len(tickets), rem)
          segment == SegmentGet(segs, segment_idx) \o SubSeq(tickets, 1, todo)
      IN AppendLoop(SubSeq(tickets, todo + 1, Len(tickets)), segment_idx + 1,
                    [metadata EXCEPT !.unsorted_tickets_count = (@ + todo) % U32],
                    SegmentInsert(segs, segment_idx, Prefix(segment, SEGMENT_MAX_SIZE)))

\* A variant of append_tickets that starts at the segment after the last full
\* or partial one.
append_tickets_NextSegment(tickets, metadata, segs) ==
    AppendLoop(tickets, DivCeil(metadata.unsorted_tickets_count, SEGMENT_MAX_SIZE), metadata, segs)

\* append_tickets(tickets): returns the stored metadata and segments, [meta, segs].
append_tickets(tickets, metadata, segs) ==
    AppendLoop(tickets, metadata.unsorted_tickets_count \div SEGMENT_MAX_SIZE, metadata, segs)

\* A variant of ValidIds that starts at the second index.
ValidIds_SkipFirst(ids, metadata, tag) ==
    { ids[tag][i] : i \in (2 .. metadata.tickets_count[tag]) \cap DOMAIN ids[tag] }

\* The ids held at indices below the stored count of one half of TicketsIds.
ValidIds(ids, metadata, tag) ==
    { ids[tag][i] : i \in (1 .. metadata.tickets_count[tag]) \cap DOMAIN ids[tag] }

\* reset_tickets_data(): returns [meta, ids, data, segs, cands].
reset_tickets_data(metadata, store) ==
    LET segments_count == DivCeil(metadata.unsorted_tickets_count, SEGMENT_MAX_SIZE)
    IN [ meta |-> DefaultTicketsMeta,
         ids |-> store.ids,
         data |-> (store.data \ ValidIds(store.ids, metadata, 0)) \ ValidIds(store.ids, metadata, 1),
         segs |-> [k \in { j \in DOMAIN store.segs : j >= segments_count } |-> store.segs[k]],
         cands |-> <<>> ]

(***************************************************************************)
(* Crypto facade (sp_consensus_sassafras).                                 *)
(***************************************************************************)
\* ticket_id_threshold(redundancy, slots, attempts, validators):
\* TicketId::MAX.checked_div(attempts * validators).unwrap_or_default()
\*     .saturating_mul(redundancy * slots)
ticket_id_threshold(redundancy, slots, attempts, validators) ==
    LET num == redundancy * slots
        den == attempts * validators
        quot == IF den = 0 THEN 0 ELSE MaxTicketId \div den
    IN Min(quot * num, MaxTicketId)

\* RingContext::verifier_data(pks): the verifier is a function of the ordered keys.
verifier_data(pks) == pks

(***************************************************************************)
(* Authorities and ring verifier.                                          *)
(***************************************************************************)
\* A variant of update_ring_verifier that does not look for the ring context.
update_ring_verifier_NoContextCheck(authorities) == Some(verifier_data(authorities))

\* A variant of update_ring_verifier that never stores a verifier.
update_ring_verifier_Skip(authorities) == RingVerifierData

\* update_ring_verifier(authorities): the new value of RingVerifierData.
update_ring_verifier(authorities) ==
    IF RingContext = None THEN RingVerifierData
    ELSE Some(verifier_data(authorities))

(***************************************************************************)
(* Randomness.                                                             *)
(***************************************************************************)
\* A Randomness value; the storage default is the all-zero array.
Randomness == 0 .. (RandomnessSpace - 1)

\* hashing::blake2_256 of a buffer given as the sequence of its fields: a digest
\* that depends on every field and on their order.
RECURSIVE blake2_256(_)
blake2_256(buf) ==
    IF buf = <<>> THEN 0
    ELSE (3 * blake2_256(SubSeq(buf, 1, Len(buf) - 1)) + buf[Len(buf)]) % RandomnessSpace

\* vrf::slot_claim_input(randomness, slot, epoch): the VRF input of a slot claim.
slot_claim_input(randomness, slot, epoch) == << randomness, slot, epoch >>

\* VrfOutput::make_bytes(RANDOMNESS_VRF_CONTEXT, input): the bytes a claim's
\* pre-output gives for an input.  Pre-output 0 gives zero bytes for every
\* input; every other pre-output gives bytes that depend on the input.
make_bytes(output, input) ==
    (output * (1 + (blake2_256(input) % (RandomnessSpace - 1)))) % RandomnessSpace

\* A variant of update_epoch_randomness that hashes the randomness of the
\* epoch that ends instead of the one that starts.
update_epoch_randomness_FromEnded(next_epoch_index) ==
    [ CurrentRandomness |-> NextRandomness,
      NextRandomness |->
          blake2_256(<< RandomnessAccumulator, CurrentRandomness, next_epoch_index >>) ]

\* A variant of update_epoch_randomness that leaves the current randomness alone.
update_epoch_randomness_KeepCurrent(next_epoch_index) ==
    [ CurrentRandomness |-> CurrentRandomness,
      NextRandomness |->
          blake2_256(<< RandomnessAccumulator, NextRandomness, next_epoch_index >>) ]

\* update_epoch_randomness(next_epoch_index): the two values it stores; the
\* second one is also its return value.
update_epoch_randomness(next_epoch_index) ==
    LET curr_epoch_randomness == NextRandomness
        accumulator == RandomnessAccumulator
    IN [ CurrentRandomness |-> curr_epoch_randomness,
         NextRandomness |->
             blake2_256(<< accumulator, curr_epoch_randomness, next_epoch_index >>) ]

\* A variant of deposit_slot_randomness that hashes the slot randomness first.
deposit_slot_randomness_RandomnessFirst(randomness) ==
    blake2_256(<< randomness, RandomnessAccumulator >>)

\* deposit_slot_randomness(randomness): the accumulator it stores.
deposit_slot_randomness(randomness) ==
    blake2_256(<< RandomnessAccumulator, randomness >>)

(***************************************************************************)
(* Epoch change.                                                           *)
(***************************************************************************)
\* A variant of RebuildsVerifier that rebuilds the verifier on every epoch change.
RebuildsVerifier_Always(authorities, next_authorities) == TRUE

\* `if next_authorities != authorities { Self::update_ring_verifier(&next_authorities) }`
RebuildsVerifier(authorities, next_authorities) == next_authorities # authorities

\* A variant of SkippedEpochs that steps back over the skipped epochs.
SkippedEpochs_Backwards(slot_idx) == 0 - (slot_idx \div EpochLength) - 1

\* A variant of SkippedEpochs that counts one skipped epoch whatever the distance.
SkippedEpochs_One(slot_idx) == 1

\* `let skipped_epochs = u64::from(slot_idx) / T::EpochLength::get()`
SkippedEpochs(slot_idx) == slot_idx \div EpochLength

\* A variant of PromoteNextConfig that puts a pending change in force at once.
PromoteNextConfig_FromPending ==
    IF PendingEpochConfigChange # None THEN Unwrap(PendingEpochConfigChange)
    ELSE IF NextEpochConfig # None THEN Unwrap(NextEpochConfig) ELSE EpochConfig

\* `if let Some(config) = NextEpochConfig::<T>::take() { EpochConfig::<T>::put(config) }`
PromoteNextConfig ==
    IF NextEpochConfig # None THEN Unwrap(NextEpochConfig) ELSE EpochConfig

\* Whether enact_epoch_change saves the metadata it worked on (the
\* `if *prev_epoch_tickets_count != 0` block ends with TicketsMeta::set).
SavesMetadata(prev_epoch_tickets_count) == prev_epoch_tickets_count # 0

\* enact_epoch_change(authorities, next_authorities) with CurrentSlot = current_slot:
\* the values of the storage items it may write.
enact_epoch_change(authorities, next_authorities, current_slot) ==
    LET first_idx == EpochIndex + 1
        slot_idx == SatSub(current_slot, epoch_start(first_idx, GenesisSlot))
        skipped == slot_idx >= EpochLength
        s1 == IF skipped THEN reset_tickets_data(TicketsMeta, Store)
              ELSE [ meta |-> TicketsMeta, ids |-> TicketsIds, data |-> TicketsData,
                     segs |-> UnsortedSegments, cands |-> SortedCandidates ]
        epoch_idx == IF skipped THEN first_idx + SkippedEpochs(slot_idx) ELSE first_idx
        tickets_metadata == s1.meta
        next_epoch_index == epoch_idx + 1
        randomness == update_epoch_randomness(next_epoch_index)
        next_config == PendingEpochConfigChange
        epoch_tag == epoch_idx % 2
        s2 == IF tickets_metadata.unsorted_tickets_count # 0
              THEN sort_tickets(U32 - 1, epoch_tag, tickets_metadata,
                                [ids |-> s1.ids, data |-> s1.data, segs |-> s1.segs,
                                 cands |-> s1.cands])
              ELSE s1
        next_epoch_tag == (epoch_tag + 1) % 2
        prev_epoch_tickets_count == s2.meta.tickets_count[next_epoch_tag]
    IN [ RingVerifierData |-> IF RebuildsVerifier(authorities, next_authorities)
                              THEN update_ring_verifier(next_authorities)
                              ELSE RingVerifierData,
         Authorities |-> authorities,
         NextAuthorities |-> next_authorities,
         EpochIndex |-> epoch_idx,
         CurrentRandomness |-> randomness.CurrentRandomness,
         NextRandomness |-> randomness.NextRandomness,
         EpochConfig |-> PromoteNextConfig,
         NextEpochConfig |-> next_config,
         PendingEpochConfigChange |-> None,
         TicketsMeta |-> IF SavesMetadata(prev_epoch_tickets_count)
                         THEN [s2.meta EXCEPT !.tickets_count[next_epoch_tag] = 0]
                         ELSE s1.meta,
         TicketsIds |-> s2.ids,
         TicketsData |-> IF prev_epoch_tickets_count # 0
                         THEN s2.data \ ValidIds(s2.ids, s2.meta, next_epoch_tag)
                         ELSE s2.data,
         UnsortedSegments |-> s2.segs,
         SortedCandidates |-> s2.cands,
         NextEpochDescriptor |-> [ randomness |-> randomness.NextRandomness,
                                   authorities |-> next_authorities,
                                   config |-> next_config ] ]

\* A variant of should_end_epoch that waits for the slot after the epoch's end.
should_end_epoch_PastFirstSlot(block_num, current_slot, genesis_slot) ==
    block_num > 1 /\ slot_index(current_slot, EpochIndex, genesis_slot) > EpochLength

\* should_end_epoch(block_num), evaluated once CurrentSlot holds current_slot.
should_end_epoch(block_num, current_slot, genesis_slot) ==
    block_num > 1 /\ slot_index(current_slot, EpochIndex, genesis_slot) >= EpochLength

\* current_epoch(): the Epoch the pallet reports for the current epoch.
current_epoch ==
    LET index == EpochIndex
    IN [ index |-> index,
         start |-> epoch_start(index, GenesisSlot),
         length |-> EpochLength,
         authorities |-> Authorities,
         randomness |-> CurrentRandomness,
         config |-> EpochConfig ]

\* next_epoch(): the Epoch the pallet reports for the next epoch.
next_epoch ==
    LET index == EpochIndex + 1
    IN [ index |-> index,
         start |-> epoch_start(index, GenesisSlot),
         length |-> EpochLength,
         authorities |-> NextAuthorities,
         randomness |-> NextRandomness,
         config |-> IF NextEpochConfig # None THEN Unwrap(NextEpochConfig) ELSE EpochConfig ]

(***************************************************************************)
(* Groups of variables.                                                    *)
(***************************************************************************)
ticketVars == << TicketsMeta, TicketsIds, TicketsData, UnsortedSegments, SortedCandidates >>
epochVars == << EpochIndex, Authorities, NextAuthorities, CurrentRandomness, NextRandomness,
                EpochConfig, NextEpochConfig,
                PendingEpochConfigChange, RingVerifierData >>
blockVars == << block_number, pc, GenesisSlot, CurrentSlot, ClaimTemporaryData,
                RandomnessAccumulator, Digest >>
constVars == << RingContext, EpochChangeTrigger >>
\* Every storage item of the pallet.
storage == << EpochIndex, Authorities, NextAuthorities, GenesisSlot, CurrentSlot,
              EpochConfig, NextEpochConfig, PendingEpochConfigChange, TicketsMeta,
              TicketsIds, TicketsData, UnsortedSegments, SortedCandidates, RingContext,
              RingVerifierData, ClaimTemporaryData, CurrentRandomness, NextRandomness,
              RandomnessAccumulator >>

(***************************************************************************)
(* Genesis.                                                                *)
(***************************************************************************)
\* The storage GenesisConfig::build leaves in a runtime configured with `trigger`.
Genesis(trigger) ==
    /\ block_number = 0
    /\ pc = "idle"
    /\ EpochIndex = 0
    /\ Authorities = GenesisAuthorities
    /\ NextAuthorities = GenesisAuthorities
    /\ GenesisSlot = 0
    /\ CurrentSlot = 0
    /\ EpochConfig = GenesisEpochConfig
    /\ NextEpochConfig = None
    /\ PendingEpochConfigChange = None
    /\ TicketsMeta = DefaultTicketsMeta
    /\ TicketsIds = [t \in Tags |-> <<>>]
    /\ TicketsData = {}
    /\ UnsortedSegments = <<>>
    /\ SortedCandidates = <<>>
    /\ RingContext \in {None, Some("ring_ctx")}
    /\ RingVerifierData = IF RingContext = None THEN None
                          ELSE Some(verifier_data(GenesisAuthorities))
    /\ ClaimTemporaryData = None
    /\ CurrentRandomness = 0
    /\ NextRandomness = 0
    /\ RandomnessAccumulator = 0
    /\ EpochChangeTrigger = trigger
    /\ Digest = <<>>
    /\ admitted = {}
    /\ validity = None

\* A runtime whose Config::EpochChangeTrigger is EpochChangeInternalTrigger.
Init == Genesis("Internal")

\* A runtime with either trigger.
InitTriggers == Genesis("Internal") \/ Genesis("External")

(***************************************************************************)
(* Hooks.                                                                  *)
(***************************************************************************)
\* A variant of deposit_next_epoch_descriptor_digest that deposits nothing.
deposit_next_epoch_descriptor_digest_Nothing(logs, desc) == logs

\* deposit_next_epoch_descriptor_digest(desc): the header digest with the
\* descriptor's log deposited after the logs it already holds.
deposit_next_epoch_descriptor_digest(logs, desc) == Append(logs, desc)

\* The descriptor on_initialize builds in the first block.
FirstBlockDescriptor(next_randomness, next_authorities) ==
    [ randomness |-> next_randomness, authorities |-> next_authorities, config |-> None ]

\* The storage writes of one enact_epoch_change, `new` being the values it
\* computed and `logs` the header digest it deposits its descriptor in; the
\* tickets admitted for the epoch that ends are forgotten.
StoreEpochChange(new, logs) ==
    /\ RingVerifierData' = new.RingVerifierData
    /\ Authorities' = new.Authorities
    /\ NextAuthorities' = new.NextAuthorities
    /\ EpochIndex' = new.EpochIndex
    /\ CurrentRandomness' = new.CurrentRandomness
    /\ NextRandomness' = new.NextRandomness
    /\ EpochConfig' = new.EpochConfig
    /\ NextEpochConfig' = new.NextEpochConfig
    /\ PendingEpochConfigChange' = new.PendingEpochConfigChange
    /\ TicketsMeta' = new.TicketsMeta
    /\ TicketsIds' = new.TicketsIds
    /\ TicketsData' = new.TicketsData
    /\ UnsortedSegments' = new.UnsortedSegments
    /\ SortedCandidates' = new.SortedCandidates
    /\ Digest' = deposit_next_epoch_descriptor_digest(logs, new.NextEpochDescriptor)
    /\ admitted' = {}

\* Slots the next block may claim.
NextSlots ==
    IF block_number = 0 THEN FirstSlots
    ELSE { s \in (CurrentSlot + 1) .. (CurrentSlot + MaxSlotJump) :
             s < GenesisSlot + ChainSlots }

\* Slots the next block may claim on a chain long enough to skip two epochs.
LateSlots ==
    IF block_number = 0 THEN FirstSlots
    ELSE { s \in (CurrentSlot + 1) .. (CurrentSlot + MaxSlotJump + EpochLength) :
             s < GenesisSlot + ChainSlots + EpochLength }

\* on_initialize of the block after the current one, its claim carrying `slot`
\* and the VRF pre-output `vrf_output`.
OnInitialize(slot, vrf_output) ==
    LET block_num == Min(block_number + 1, BlockNumberCap)
        genesis_slot == IF block_num = 1 THEN slot ELSE GenesisSlot
        rotate == /\ EpochChangeTrigger = "Internal"
                  /\ should_end_epoch(block_num, slot, genesis_slot)
        new == enact_epoch_change(NextAuthorities, NextAuthorities, slot)
        first_block_logs ==
            IF block_num = 1
            THEN deposit_next_epoch_descriptor_digest(<<>>,
                     FirstBlockDescriptor(NextRandomness, NextAuthorities))
            ELSE <<>>
    IN /\ pc = "idle"
       /\ slot > CurrentSlot \/ block_number = 0
       /\ block_number' = block_num
       /\ pc' = "block"
       /\ CurrentSlot' = slot
       /\ GenesisSlot' = genesis_slot
       /\ ClaimTemporaryData' = Some(vrf_output)
       /\ IF rotate
          THEN StoreEpochChange(new, first_block_logs)
          ELSE /\ Digest' = first_block_logs
               /\ UNCHANGED << epochVars, ticketVars, admitted >>
       /\ UNCHANGED << RandomnessAccumulator, constVars, validity >>

\* The number of segments on_finalize asks sort_tickets to consume.
pass_size(unsorted_tickets_count, slots_left) ==
    DivCeil(unsorted_tickets_count, (SEGMENT_MAX_SIZE * (slots_left % U32)) % U32)

\* on_finalize: the store and the stored metadata it leaves, [meta, ids, data, segs, cands].
on_finalize ==
    LET current_slot_idx == current_slot_index
        metadata == TicketsMeta
        epoch_tag == (EpochIndex + 1) % 2
        slots_left == IF EpochLength >= current_slot_idx
                      THEN EpochLength - current_slot_idx ELSE 1
    IN IF current_slot_idx >= EpochLength \div 2 /\ metadata.unsorted_tickets_count # 0
       THEN sort_tickets(pass_size(metadata.unsorted_tickets_count, slots_left),
                         epoch_tag, metadata, Store)
       ELSE [meta |-> TicketsMeta] @@ Store

\* The divisor of the pass size is zero: div_ceil panics.
FinalizePanics ==
    LET slots_left == IF EpochLength >= current_slot_index
                      THEN EpochLength - current_slot_index ELSE 1
    IN /\ current_slot_index >= EpochLength \div 2
       /\ TicketsMeta.unsorted_tickets_count # 0
       /\ (SEGMENT_MAX_SIZE * (slots_left % U32)) % U32 = 0

\* A variant of AfterTake in which the value is read and left in storage.
AfterTake_Get(value) == value

\* `ClaimTemporaryData::<T>::take()`: what the storage item holds afterwards.
AfterTake(value) == None

\* A variant of slot_randomness whose input is made of the next epoch's randomness.
slot_randomness_NextRandomness ==
    make_bytes(Unwrap(ClaimTemporaryData),
               slot_claim_input(NextRandomness, CurrentSlot, EpochIndex))

\* The per-slot randomness on_finalize deposits.
slot_randomness ==
    LET randomness_input == slot_claim_input(CurrentRandomness, CurrentSlot, EpochIndex)
        randomness_output == Unwrap(ClaimTemporaryData)
    IN make_bytes(randomness_output, randomness_input)

OnFinalize ==
    /\ pc = "block"
    /\ ClaimTemporaryData # None
    /\ ~FinalizePanics
    /\ pc' = "idle"
    /\ ClaimTemporaryData' = AfterTake(ClaimTemporaryData)
    /\ RandomnessAccumulator' = deposit_slot_randomness(slot_randomness)
    /\ TicketsMeta' = on_finalize.meta
    /\ TicketsIds' = on_finalize.ids
    /\ TicketsData' = on_finalize.data
    /\ UnsortedSegments' = on_finalize.segs
    /\ SortedCandidates' = on_finalize.cands
    /\ UNCHANGED << block_number, GenesisSlot, CurrentSlot, epochVars, constVars, Digest,
                    admitted, validity >>

(***************************************************************************)
(* Dispatchable calls.                                                     *)
(***************************************************************************)
\* `if ticket_id >= ticket_threshold { continue }`
OverThreshold(ticket_id, ticket_threshold) == ticket_id >= ticket_threshold

\* `if TicketsData::<T>::contains_key(ticket_id) { continue }`
IsDuplicate(ticket_id, data) == ticket_id \in data

\* A variant of SubmitConfig that prefers a pending change.
SubmitConfig_PendingFirst ==
    IF PendingEpochConfigChange # None THEN Unwrap(PendingEpochConfigChange)
    ELSE IF NextEpochConfig # None THEN Unwrap(NextEpochConfig) ELSE EpochConfig

\* `let next_config = Self::next_config().unwrap_or_else(|| Self::config())`
SubmitConfig ==
    IF NextEpochConfig # None THEN Unwrap(NextEpochConfig) ELSE EpochConfig

\* A variant of SubmitThreshold that reads the current epoch's configuration.
SubmitThreshold_CurrentConfig ==
    ticket_id_threshold(EpochConfig.redundancy_factor, EpochLength % U32,
                        EpochConfig.attempts_number, Len(NextAuthorities))

\* The threshold submit_tickets computes from the next epoch's parameters.
SubmitThreshold ==
    LET next_config == SubmitConfig
    IN ticket_id_threshold(next_config.redundancy_factor, EpochLength % U32,
                           next_config.attempts_number, Len(NextAuthorities))

\* A variant of CheckTickets that leaves the loop at the first rejected envelope.
RECURSIVE CheckTickets_StopAtRejection(_, _, _, _)
CheckTickets_StopAtRejection(tickets, ticket_threshold, data, valid_tickets) ==
    IF tickets = <<>> THEN [data |-> data, valid |-> valid_tickets]
    ELSE
      LET ticket == Head(tickets)
          accept == /\ ticket.has_output
                    /\ ~OverThreshold(ticket.ticket_id, ticket_threshold)
                    /\ ~IsDuplicate(ticket.ticket_id, data)
                    /\ ticket.proof_ok
      IN IF accept
         THEN CheckTickets_StopAtRejection(Tail(tickets), ticket_threshold,
                                           data \cup {ticket.ticket_id},
                                           Append(valid_tickets, ticket.ticket_id))
         ELSE [data |-> data, valid |-> valid_tickets]

\* The `for ticket in tickets` loop of submit_tickets: the keys of TicketsData
\* and the local vector valid_tickets, [data, valid].
RECURSIVE CheckTickets(_, _, _, _)
CheckTickets(tickets, ticket_threshold, data, valid_tickets) ==
    IF tickets = <<>> THEN [data |-> data, valid |-> valid_tickets]
    ELSE
      LET ticket == Head(tickets)
          accept == /\ ticket.has_output
                    /\ ~OverThreshold(ticket.ticket_id, ticket_threshold)
                    /\ ~IsDuplicate(ticket.ticket_id, data)
                    /\ ticket.proof_ok
      IN IF accept
         THEN CheckTickets(Tail(tickets), ticket_threshold, data \cup {ticket.ticket_id},
                           Append(valid_tickets, ticket.ticket_id))
         ELSE CheckTickets(Tail(tickets), ticket_threshold, data, valid_tickets)

\* submit_tickets(origin, tickets): the dispatch result, the ids it accepted and
\* the storage it leaves, [ret, valid, data, meta, segs].
submit_tickets(origin, tickets) ==
    LET untouched == [valid |-> <<>>, data |-> TicketsData, meta |-> TicketsMeta,
                      segs |-> UnsortedSegments]
        checked == CheckTickets(tickets, SubmitThreshold, TicketsData, <<>>)
        appended == append_tickets(checked.valid, TicketsMeta, UnsortedSegments)
    IN IF origin # "None" THEN [ret |-> "BadOrigin"] @@ untouched
       ELSE IF RingVerifierData = None
       THEN [ret |-> "Ring verifier key not initialized"] @@ untouched
       ELSE IF checked.valid # <<>>
       THEN [ret |-> "Ok", valid |-> checked.valid, data |-> checked.data,
             meta |-> appended.meta, segs |-> appended.segs]
       ELSE [ret |-> "Ok", valid |-> <<>>, data |-> checked.data,
             meta |-> TicketsMeta, segs |-> UnsortedSegments]

\* A variant of validate_unsigned that already refuses the call at the midpoint.
validate_unsigned_StaleAtMidpoint(source, call) ==
    IF call # "submit_tickets" THEN [ret |-> "InvalidTransaction::Call"]
    ELSE IF source = "External" THEN [ret |-> "InvalidTransaction::BadSigner"]
    ELSE IF current_slot_index >= EpochLength \div 2 THEN [ret |-> "InvalidTransaction::Stale"]
    ELSE [ret |-> "Valid", longevity |-> EpochLength \div 2 - current_slot_index]

\* A variant of validate_unsigned that looks at the slot before the source.
validate_unsigned_SlotFirst(source, call) ==
    IF call # "submit_tickets" THEN [ret |-> "InvalidTransaction::Call"]
    ELSE IF current_slot_index > EpochLength \div 2 THEN [ret |-> "InvalidTransaction::Stale"]
    ELSE IF source = "External" THEN [ret |-> "InvalidTransaction::BadSigner"]
    ELSE [ret |-> "Valid", longevity |-> EpochLength \div 2 - current_slot_index]

\* validate_unsigned(source, call): the transaction validity, with the longevity
\* of a valid transaction (the priority is the maximum, the tag is the hash of
\* the encoded tickets and the transaction propagates).
validate_unsigned(source, call) ==
    IF call # "submit_tickets" THEN [ret |-> "InvalidTransaction::Call"]
    ELSE IF source = "External" THEN [ret |-> "InvalidTransaction::BadSigner"]
    ELSE IF current_slot_index > EpochLength \div 2 THEN [ret |-> "InvalidTransaction::Stale"]
    ELSE [ret |-> "Valid", longevity |-> EpochLength \div 2 - current_slot_index]

\* The transaction sources and the calls of the pallet that reach validate_unsigned.
Sources == {"Local", "InBlock", "External"}
Calls == {"submit_tickets", "plan_config_change"}

\* The transaction pool asks for the validity of an unsigned call: the function
\* reads storage and writes none.
ValidateUnsigned(source, call) ==
    /\ validity' = Some(validate_unsigned(source, call))
    /\ UNCHANGED << blockVars, ticketVars, epochVars, constVars, admitted >>

\* An unsigned extrinsic of a block is dispatched once validate_unsigned has
\* accepted it with the source InBlock (ValidateUnsigned::pre_dispatch).
SubmitTickets(origin, tickets) ==
    LET r == submit_tickets(origin, tickets)
    IN /\ pc = "block"
       /\ validate_unsigned("InBlock", "submit_tickets").ret = "Valid"
       /\ TicketsData' = r.data
       /\ TicketsMeta' = r.meta
       /\ UnsortedSegments' = r.segs
       /\ admitted' = admitted \cup Range(r.valid)
       /\ UNCHANGED << TicketsIds, SortedCandidates, blockVars, epochVars, constVars, validity >>

\* plan_config_change(origin, config): the dispatch result and the pending change
\* it leaves, [ret, pending].
\* A variant of plan_config_change without the check of the configuration.
plan_config_change_Unchecked(origin, config) ==
    IF origin # "Root" THEN [ret |-> "BadOrigin", pending |-> PendingEpochConfigChange]
    ELSE [ret |-> "Ok", pending |-> Some(config)]

plan_config_change(origin, config) ==
    IF origin # "Root" THEN [ret |-> "BadOrigin", pending |-> PendingEpochConfigChange]
    ELSE IF ~(config.redundancy_factor # 0 /\ config.attempts_number # 0)
    THEN [ret |-> "InvalidConfiguration", pending |-> PendingEpochConfigChange]
    ELSE [ret |-> "Ok", pending |-> Some(config)]

PlanConfigChange(origin, config) ==
    /\ pc = "block"
    /\ PendingEpochConfigChange' = plan_config_change(origin, config).pending
    /\ UNCHANGED << blockVars, ticketVars, constVars, admitted, validity, EpochIndex, Authorities,
                    NextAuthorities, CurrentRandomness, NextRandomness, EpochConfig,
                    NextEpochConfig, RingVerifierData >>

(***************************************************************************)
(* Ticket lookup.                                                          *)
(***************************************************************************)
\* A variant of get_ticket_idx that maps the first half to the even indices.
get_ticket_idx_EvenFirst(slot_idx) ==
    (IF slot_idx < EpochLength \div 2
     THEN 2 * slot_idx
     ELSE 2 * (EpochLength - (slot_idx + 1))) % U32

\* A variant of ticket_idx_of whose first half takes the even indices.
ticket_idx_of_EvenFirst(epoch_len, slot_idx) ==
    (IF slot_idx < epoch_len \div 2
     THEN 2 * slot_idx
     ELSE 2 * (epoch_len - (slot_idx + 1))) % U32

\* The body of the closure get_ticket_idx for an epoch of epoch_len slots.
ticket_idx_of(epoch_len, slot_idx) ==
    (IF slot_idx < epoch_len \div 2
     THEN 2 * slot_idx + 1
     ELSE 2 * (epoch_len - (slot_idx + 1))) % U32

\* The closure get_ticket_idx of slot_ticket_id (the result is cast to u32),
\* epoch_len being T::EpochLength::get().
get_ticket_idx(slot_idx) == ticket_idx_of(EpochLength, slot_idx)

\* slot_ticket_id(slot): the value returned and the store and stored metadata
\* it leaves, [ret, meta, ids, data, segs, cands].
slot_ticket_id(slot) ==
    LET unchanged == [meta |-> TicketsMeta] @@ Store
        slot_idx == slot_index(slot, EpochIndex, GenesisSlot)
        in_next == EpochLength <= slot_idx /\ slot_idx < 2 * EpochLength
        epoch_tag == IF in_next THEN (EpochIndex + 1) % 2 ELSE EpochIndex % 2
        idx == IF in_next THEN slot_idx - EpochLength ELSE slot_idx
        after == IF in_next /\ TicketsMeta.unsorted_tickets_count # 0
                 THEN sort_tickets(U32 - 1, epoch_tag, TicketsMeta, Store)
                 ELSE unchanged
        ticket_idx == get_ticket_idx(idx)
    IN IF block_number < 1 THEN [ret |-> None] @@ unchanged
       ELSE IF ~in_next /\ slot_idx >= 2 * EpochLength THEN [ret |-> None] @@ unchanged
       ELSE IF ticket_idx < after.meta.tickets_count[epoch_tag]
            THEN [ret |-> IF ticket_idx + 1 \in DOMAIN after.ids[epoch_tag]
                          THEN Some(after.ids[epoch_tag][ticket_idx + 1]) ELSE None] @@ after
            ELSE [ret |-> None] @@ after

\* slot_ticket(slot): the id together with its body, when TicketsData holds one.
slot_ticket(slot) ==
    LET r == slot_ticket_id(slot)
    IN IF r.ret # None /\ Unwrap(r.ret) \in r.data
       THEN Some(<<Unwrap(r.ret), "body">>) ELSE None

\* Slots a caller may look up: from before the current epoch to beyond the next.
LookupSlots ==
    IF block_number = 0 THEN FirstSlots
    ELSE (epoch_start(EpochIndex, GenesisSlot) - 1)
            .. (epoch_start(EpochIndex, GenesisSlot) + 2 * EpochLength)

SlotTicketId(slot) ==
    LET r == slot_ticket_id(slot)
    IN /\ slot \in LookupSlots
       /\ TicketsMeta' = r.meta
       /\ TicketsIds' = r.ids
       /\ TicketsData' = r.data
       /\ UnsortedSegments' = r.segs
       /\ SortedCandidates' = r.cands
       /\ UNCHANGED << blockVars, epochVars, constVars, admitted, validity >>

\* enact_epoch_change(authorities, next_authorities) called by the component
\* that drives epoch changes in a runtime with EpochChangeExternalTrigger, in a
\* block where should_end_epoch holds.
EnactEpochChange(authorities, next_authorities) ==
    LET new == enact_epoch_change(authorities, next_authorities, CurrentSlot)
    IN /\ pc = "block"
       /\ EpochChangeTrigger = "External"
       /\ should_end_epoch(block_number, CurrentSlot, GenesisSlot)
       /\ StoreEpochChange(new, Digest)
       /\ UNCHANGED << block_number, pc, GenesisSlot, CurrentSlot, ClaimTemporaryData,
                       RandomnessAccumulator, constVars, validity >>

(***************************************************************************)
(* Specification.                                                          *)
(***************************************************************************)
\* The ticket lottery under the genesis configuration, every claim carrying
\* the VRF pre-output 0.
Next ==
    \/ \E slot \in NextSlots : OnInitialize(slot, 0)
    \/ OnFinalize
    \/ \E in \in SubmitInputs : SubmitTickets(in[1], in[2])
    \/ \E slot \in LookupSlots : SlotTicketId(slot)

Spec == Init /\ [][Next]_vars

\* Single-envelope batches with ids around the thresholds of the configurations.
ConfigSubmitInputs ==
    { <<"None", <<[ticket_id |-> t, has_output |-> TRUE, proof_ok |-> TRUE]>>>> :
        t \in (MaxTicketId - 2) .. MaxTicketId }

\* The ticket lottery with configuration changes planned by governance, slot
\* lookups and the transaction pool's validation of unsigned calls; every claim
\* carries the VRF pre-output 0.
NextConfig ==
    \/ \E slot \in LateSlots : OnInitialize(slot, 0)
    \/ OnFinalize
    \/ \E in \in ConfigSubmitInputs : SubmitTickets(in[1], in[2])
    \/ \E origin \in Origins : \E config \in Configs : PlanConfigChange(origin, config)
    \/ \E slot \in LookupSlots : SlotTicketId(slot)
    \/ \E source \in Sources : \E call \in Calls : ValidateUnsigned(source, call)

SpecConfig == Init /\ [][NextConfig]_vars

\* VRF pre-outputs a block's claim may carry.
VrfOutputs == {0, 1, 2}

\* Epochs, randomness and configuration without tickets: blocks whose claims
\* carry any pre-output, and configuration changes planned by governance.
NextEpochs ==
    \/ \E slot \in LateSlots : \E vrf_output \in VrfOutputs : OnInitialize(slot, vrf_output)
    \/ OnFinalize
    \/ \E origin \in Origins : \E config \in Configs : PlanConfigChange(origin, config)

SpecEpochs == Init /\ [][NextEpochs]_vars

\* Randomness next to the ticket lottery: blocks whose claims carry any
\* pre-output, and ticket submissions.
NextLottery ==
    \/ \E slot \in NextSlots : \E vrf_output \in VrfOutputs : OnInitialize(slot, vrf_output)
    \/ OnFinalize
    \/ \E in \in ConfigSubmitInputs : SubmitTickets(in[1], in[2])

SpecLottery == Init /\ [][NextLottery]_vars

\* Authority lists the driving component may pass to enact_epoch_change.
AuthoritySets == { GenesisAuthorities, <<2, 3>> }

\* The pallet under either trigger: with EpochChangeExternalTrigger the epoch
\* changes are enacted by calls of enact_epoch_change from outside the hooks.
NextTriggers ==
    \/ \E slot \in NextSlots : OnInitialize(slot, 0)
    \/ OnFinalize
    \/ \E authorities \in AuthoritySets : \E next_authorities \in AuthoritySets :
          EnactEpochChange(authorities, next_authorities)
    \/ \E in \in ConfigSubmitInputs : SubmitTickets(in[1], in[2])
    \/ \E origin \in Origins : \E config \in Configs : PlanConfigChange(origin, config)

SpecTriggers == InitTriggers /\ [][NextTriggers]_vars

\* Configurations offered to plan_config_change when only plans are followed:
\* two valid ones and one invalid in each field.
PlanConfigs ==
    Configs \cup { [redundancy_factor |-> 2, attempts_number |-> 1],
                   [redundancy_factor |-> 1, attempts_number |-> 0] }

\* Blocks and configuration changes planned from every origin.
NextPlans ==
    \/ \E slot \in LateSlots : OnInitialize(slot, 0)
    \/ OnFinalize
    \/ \E origin \in Origins : \E config \in PlanConfigs : PlanConfigChange(origin, config)

SpecPlans == Init /\ [][NextPlans]_vars

(***************************************************************************)
(* Vocabulary of the properties.                                           *)
(***************************************************************************)
CurrentTag == EpochIndex % 2
NextTag == (EpochIndex + 1) % 2

\* The list stored for a tag: TicketsIds at the indices below the stored count.
StoredTickets(tag) == Prefix(TicketsIds[tag], TicketsMeta.tickets_count[tag])

RECURSIVE SetToSortedSeq(_)
SetToSortedSeq(S) ==
    IF S = {} THEN <<>>
    ELSE LET m == CHOOSE x \in S : \A y \in S : x <= y
         IN <<m>> \o SetToSortedSeq(S \ {m})

\* The n smallest elements of a set, in increasing order.
Smallest(S, n) == Prefix(SetToSortedSeq(S), n)

RECURSIVE SumOfLengths(_, _)
SumOfLengths(segs, keys) ==
    IF keys = {} THEN 0
    ELSE LET k == CHOOSE x \in keys : TRUE
         IN Len(segs[k]) + SumOfLengths(segs, keys \ {k})

\* The number of ids held by UnsortedSegments.
UnsortedTotal == SumOfLengths(UnsortedSegments, DOMAIN UnsortedSegments)

\* The ids held by UnsortedSegments.
UnsortedIds == UNION { Range(UnsortedSegments[k]) : k \in DOMAIN UnsortedSegments }

StrictlyIncreasing(s) == \A i \in 1 .. Len(s) - 1 : s[i] < s[i + 1]

\* A step that enacts an epoch change without skipping an epoch.
PlainRotation == EpochIndex' = EpochIndex + 1
\* A step that enacts an epoch change.
Rotation == EpochIndex' # EpochIndex

(***************************************************************************)
(* C1.  After a rotation from epoch N to N+1 that skips no epoch, the list *)
(* stored for the new current epoch (TicketsIds under the new tag, up to   *)
(* the stored tickets_count) is the min(EpochLength, k) smallest of the k  *)
(* ids admitted by submit_tickets during epoch N, in increasing order.     *)
(***************************************************************************)
C1_RotationStoresSmallestAdmitted ==
    [][ PlainRotation =>
            Prefix(TicketsIds'[EpochIndex' % 2], TicketsMeta'.tickets_count[EpochIndex' % 2])
                = Smallest(admitted, EpochLength) ]_vars

(***************************************************************************)
(* C2.  In every state the stored unsorted_tickets_count equals the sum of *)
(* the lengths of the UnsortedSegments entries.                            *)
(***************************************************************************)
C2_UnsortedCountMatchesSegments ==
    TicketsMeta.unsorted_tickets_count = UnsortedTotal

(***************************************************************************)
(* C3.  After enact_epoch_change no unsorted work remains: the stored      *)
(* unsorted_tickets_count is 0 and every UnsortedSegments entry is empty.  *)
(***************************************************************************)
C3_RotationLeavesNoUnsortedWork ==
    [][ Rotation =>
            /\ TicketsMeta'.unsorted_tickets_count = 0
            /\ \A k \in DOMAIN UnsortedSegments' : UnsortedSegments'[k] = <<>> ]_vars

(***************************************************************************)
(* C4.  For each tag i and each j below tickets_count[i], TicketsIds holds *)
(* an id at (i, j) and TicketsData holds a body for that id; consequently  *)
(* slot_ticket returns Some whenever slot_ticket_id returns Some.          *)
(***************************************************************************)
C4_StoredTicketsHaveBodies ==
    /\ \A tag \in Tags : \A j \in 0 .. TicketsMeta.tickets_count[tag] - 1 :
          /\ j + 1 \in DOMAIN TicketsIds[tag]
          /\ TicketsIds[tag][j + 1] \in TicketsData
    /\ \A slot \in LookupSlots :
          slot_ticket_id(slot).ret # None => slot_ticket(slot) # None

\* A stored list of at least two tickets, one of them returned for a slot with its body.
C4_Witness ==
    /\ \E tag \in Tags : TicketsMeta.tickets_count[tag] >= 2
    /\ \E slot \in LookupSlots : slot_ticket_id(slot).ret # None /\ slot_ticket(slot) # None

(***************************************************************************)
(* C5.  At every block boundary no ticket body is orphaned: every key of   *)
(* TicketsData is an id held                                               *)
(* by UnsortedSegments, by SortedCandidates or by TicketsIds at an index   *)
(* below the stored count of its tag.                                      *)
(***************************************************************************)
C5_NoOrphanedBody ==
    pc = "idle" =>
        TicketsData \subseteq
            (UnsortedIds \cup Range(SortedCandidates)
                \cup ValidIds(TicketsIds, TicketsMeta, 0) \cup ValidIds(TicketsIds, TicketsMeta, 1))

\* The values of max_segments a caller may pass to sort_tickets.
SortPasses ==
    (0 .. DivCeil(TicketsMeta.unsorted_tickets_count, SEGMENT_MAX_SIZE)) \cup {U32 - 1}

(***************************************************************************)
(* C6.  Whenever a call of sort_tickets finishes with                      *)
(* unsorted_tickets_count = 0, the entries of TicketsIds it leaves under   *)
(* its tag, at the indices below tickets_count of that tag, are strictly   *)
(* increasing, whatever partial passes came before.                        *)
(***************************************************************************)
C6_CompletedSortIsStrictlyIncreasing ==
    \A max_segments \in SortPasses : \A epoch_tag \in Tags :
        LET r == sort_tickets(max_segments, epoch_tag, TicketsMeta, Store)
        IN r.meta.unsorted_tickets_count = 0 =>
              StrictlyIncreasing(Prefix(r.ids[epoch_tag], r.meta.tickets_count[epoch_tag]))

\* A partial pass has left candidates, and the pass on_finalize asks for now
\* consumes the last segment and writes a list of at least two ids.
C6_Witness ==
    /\ pc = "block"
    /\ SortedCandidates # <<>>
    /\ UnsortedTotal > 0
    /\ on_finalize.meta.unsorted_tickets_count = 0
    /\ on_finalize.meta.tickets_count[NextTag] >= 2
    /\ on_finalize.ids # TicketsIds

\* The slot of the current epoch with slot index i.
CurrentEpochSlot(i) == epoch_start(EpochIndex, GenesisSlot) + i

\* The outside-in index of slot index i: odd indices ascending over the first
\* half of the epoch, even indices descending over the second.
OutsideIn(i) == IF i < EpochLength \div 2 THEN 2 * i + 1 ELSE 2 * (EpochLength - 1 - i)

(***************************************************************************)
(* C7.  For every slot of the current epoch, with slot index i in          *)
(* 0 .. EpochLength - 1, slot_ticket_id returns Some(t) exactly when the   *)
(* outside-in index idx(i) is below tickets_count of the current tag, and  *)
(* then t is TicketsIds[(tag, idx(i))]; otherwise it returns None.         *)
(***************************************************************************)
C7_CurrentEpochLookupIsOutsideIn ==
    \A i \in 0 .. EpochLength - 1 :
        LET r == slot_ticket_id(CurrentEpochSlot(i)).ret
        IN IF OutsideIn(i) < TicketsMeta.tickets_count[CurrentTag]
           THEN r = Some(TicketsIds[CurrentTag][OutsideIn(i) + 1])
           ELSE r = None

\* The current epoch has two tickets or more, some slot of the first half has
\* one, and some slot has none.
C7_Witness ==
    /\ block_number >= 1
    /\ TicketsMeta.tickets_count[CurrentTag] >= 2
    /\ slot_ticket_id(CurrentEpochSlot(0)).ret # None
    /\ \E i \in 0 .. EpochLength - 1 : slot_ticket_id(CurrentEpochSlot(i)).ret = None

RECURSIVE Flatten(_, _)
\* The segments with the keys below n, concatenated.
Flatten(segs, n) ==
    IF n = 0 THEN <<>> ELSE Flatten(segs, n - 1) \o SegmentGet(segs, n - 1)

NoRepeat(s) == \A i \in DOMAIN s : \A j \in DOMAIN s : i # j => s[i] # s[j]

\* The ids held for the next epoch, with their multiplicity: the unsorted
\* segments, the sorted candidates and the next epoch's half of TicketsIds.
HeldForNextEpoch ==
    Flatten(UnsortedSegments, MaxTicketId + 2) \o SortedCandidates \o StoredTickets(NextTag)

\* A block is being built and the pre-dispatch gate lets submit_tickets in.
SubmitEnabled ==
    pc = "block" /\ validate_unsigned("InBlock", "submit_tickets").ret = "Valid"

(***************************************************************************)
(* C8.  No ticket id is admitted twice for the same target epoch.  While   *)
(* EpochIndex is unchanged each id occurs at most once among the unsorted  *)
(* segments, the sorted candidates and the next epoch's half of            *)
(* TicketsIds; an id that submit_tickets accepted earlier in the epoch is  *)
(* not accepted again, and a batch made only of such ids changes nothing.  *)
(***************************************************************************)
C8_NoIdAdmittedTwice ==
    /\ NoRepeat(HeldForNextEpoch)
    /\ SubmitEnabled =>
          \A in \in SubmitInputs :
              LET r == submit_tickets(in[1], in[2])
              IN /\ NoRepeat(r.valid)
                 /\ Range(r.valid) \cap admitted = {}
                 /\ (\A i \in DOMAIN in[2] : in[2][i].ticket_id \in admitted) =>
                       /\ r.data = TicketsData
                       /\ r.meta = TicketsMeta
                       /\ r.segs = UnsortedSegments

\* The threshold of the next epoch: from NextEpochConfig if set, else from
\* EpochConfig, with EpochLength slots and the number of next authorities.
NextEpochThreshold ==
    LET config == IF NextEpochConfig = None THEN EpochConfig ELSE Unwrap(NextEpochConfig)
    IN ticket_id_threshold(config.redundancy_factor, EpochLength,
                           config.attempts_number, Len(NextAuthorities))

(***************************************************************************)
(* C9.  Every ticket id a step stores (inserts into TicketsData or appends *)
(* to UnsortedSegments) is strictly below the threshold computed, in the   *)
(* state of the call, from the next epoch's configuration (NextEpochConfig *)
(* if set, else EpochConfig), EpochLength and the number of                *)
(* NextAuthorities.                                                        *)
(***************************************************************************)
C9_AcceptedIdsBelowThreshold ==
    [][ \A t \in (TicketsData' \ TicketsData) \cup (UnsortedIds' \ UnsortedIds) :
            t < NextEpochThreshold ]_vars

\* Tickets have been accepted under a NextEpochConfig whose threshold is lower
\* than the one of EpochConfig.
C9_Witness ==
    /\ NextEpochConfig # None
    /\ NextEpochThreshold < SubmitThreshold_CurrentConfig
    /\ admitted # {}
    /\ admitted \subseteq TicketsData \cap UnsortedIds

\* Whether the envelope at position i of a batch passes every check on its own:
\* it carries a VRF output, its id is below the threshold and has no body yet,
\* and its proof verifies.
Passes(batch, i) ==
    /\ batch[i].has_output
    /\ batch[i].proof_ok
    /\ batch[i].ticket_id < NextEpochThreshold
    /\ batch[i].ticket_id \notin TicketsData

\* The positions of a batch whose envelope is accepted: it passes, and no
\* earlier envelope of the batch that passes carries the same id.
AcceptedPositions(batch) ==
    { i \in DOMAIN batch :
        /\ Passes(batch, i)
        /\ \A j \in 1 .. i - 1 : ~(Passes(batch, j) /\ batch[j].ticket_id = batch[i].ticket_id) }

\* The ids of the accepted envelopes of a batch, in the order of the batch.
AcceptedIds(batch) ==
    LET pos == SetToSortedSeq(AcceptedPositions(batch))
    IN [k \in DOMAIN pos |-> batch[pos[k]].ticket_id]

(***************************************************************************)
(* C10.  submit_tickets with the origin None fails only when               *)
(* RingVerifierData is absent, and then changes no storage; with a         *)
(* verifier it returns Ok for every batch, and the ids it stores are       *)
(* exactly those of the envelopes that pass every check, in order: a       *)
(* rejected envelope changes nothing, removes no ticket accepted earlier   *)
(* in the batch and does not keep later envelopes from being accepted.     *)
(***************************************************************************)
C10_OnlyMissingVerifierFails ==
    SubmitEnabled =>
        \A batch \in Batches :
            LET r == submit_tickets("None", batch)
            IN IF RingVerifierData = None
               THEN /\ r.ret # "Ok"
                    /\ r.data = TicketsData
                    /\ r.meta = TicketsMeta
                    /\ r.segs = UnsortedSegments
               ELSE /\ r.ret = "Ok"
                    /\ r.valid = AcceptedIds(batch)
                    /\ r.data = TicketsData \cup Range(AcceptedIds(batch))
                    /\ AcceptedIds(batch) = <<>> =>
                          r.meta = TicketsMeta /\ r.segs = UnsortedSegments

\* With a verifier loaded and a ticket already stored, a batch starts with a
\* duplicate of it and goes on with an envelope that is accepted.
C10_Witness ==
    /\ SubmitEnabled
    /\ RingVerifierData # None
    /\ admitted # {}
    /\ \E batch \in Batches :
          /\ Len(batch) = 2
          /\ batch[1].ticket_id \in admitted \cap TicketsData
          /\ batch[1].has_output /\ batch[1].proof_ok
          /\ submit_tickets("None", batch).ret = "Ok"
          /\ submit_tickets("None", batch).valid = <<batch[2].ticket_id>>

SortWindowOpen == current_slot_index >= EpochLength \div 2

(***************************************************************************)
(* C12.  The submission window and the sorting window are disjoint: in no  *)
(* block does the pre-dispatch gate accept a submit_tickets call while     *)
(* on_finalize of that block is in its sorting half.                       *)
(***************************************************************************)
C12_WindowsDisjoint ==
    pc = "block" => ~(SubmitEnabled /\ SortWindowOpen)

\* The answers validate_unsigned owes to an External source and to a call
\* other than submit_tickets.
RefusesForeign ==
    /\ validate_unsigned("External", "submit_tickets") = [ret |-> "InvalidTransaction::BadSigner"]
    /\ \A source \in Sources : \A call \in Calls \ {"submit_tickets"} :
          validate_unsigned(source, call) = [ret |-> "InvalidTransaction::Call"]

(***************************************************************************)
(* C13.  validate_unsigned rejects every submit_tickets call from an       *)
(* External source with BadSigner whatever the current slot, rejects every *)
(* call other than submit_tickets, and writes no storage in any outcome.   *)
(***************************************************************************)
C13_ValidationRefusesAndWritesNothing ==
    [][ /\ RefusesForeign /\ RefusesForeign'
        /\ validity' # validity => UNCHANGED storage ]_vars

\* The pool has been refused an External call with BadSigner at a slot past the
\* midpoint, where a Local call is Stale.
C13_Witness ==
    /\ validity = Some([ret |-> "InvalidTransaction::BadSigner"])
    /\ current_slot_index > EpochLength \div 2
    /\ TicketsData # {}

\* The slot index of the new CurrentSlot relative to the start of the epoch
\* after the one that ends.
RotationDistance == CurrentSlot' - epoch_start(EpochIndex + 1, GenesisSlot)

\* The ids waiting for the next epoch in the segments and among the candidates.
PendingIds == UnsortedIds \cup Range(SortedCandidates)

(***************************************************************************)
(* C14.  When a rotation is enacted with CurrentSlot at slot index d       *)
(* relative to the start of epoch EpochIndex + 1: if d >= EpochLength      *)
(* (whole epochs skipped) EpochIndex becomes EpochIndex + 1 +              *)
(* floor(d / EpochLength); if d < EpochLength it becomes EpochIndex + 1    *)
(* and no ticket data is reset: the pending tickets that fit the new epoch *)
(* keep their bodies.                                                      *)
(***************************************************************************)
C14_SkippedEpochsAdvanceIndex ==
    [][ Rotation =>
          IF RotationDistance >= EpochLength
          THEN EpochIndex' = EpochIndex + 1 + RotationDistance \div EpochLength
          ELSE /\ RotationDistance >= 0
               /\ EpochIndex' = EpochIndex + 1
               /\ Range(Smallest(PendingIds, EpochLength)) \subseteq TicketsData' ]_vars

\* The chain has jumped from epoch 0 over two whole epochs into epoch 3.
C14_Witness ==
    /\ EpochIndex = 3
    /\ block_number = 2
    /\ pc = "block"

(***************************************************************************)
(* C15.  After a rotation that detects skipped epochs all ticket state is  *)
(* cleared: TicketsMeta is the default, UnsortedSegments and               *)
(* SortedCandidates are empty and TicketsData has no entry, the bodies of  *)
(* unsorted and candidate tickets included.                                *)
(***************************************************************************)
C15_SkipClearsAllTicketState ==
    [][ (Rotation /\ RotationDistance >= EpochLength) =>
          /\ TicketsMeta' = DefaultTicketsMeta
          /\ \A k \in DOMAIN UnsortedSegments' : UnsortedSegments'[k] = <<>>
          /\ SortedCandidates' = <<>>
          /\ TicketsData' = {} ]_vars

(***************************************************************************)
(* C16.  After enact_epoch_change enacts epoch E, the half of the ring     *)
(* buffer with the tag (E mod 2) xor 1 has the stored tickets_count 0 and  *)
(* no ticket that was in that half has a TicketsData entry any more.       *)
(***************************************************************************)
C16_RetiredHalfIsCleared ==
    [][ Rotation =>
          LET retired == (EpochIndex' + 1) % 2
          IN /\ TicketsMeta'.tickets_count[retired] = 0
             /\ Range(StoredTickets(retired)) \cap TicketsData' = {} ]_vars

\* Epoch 2 has been enacted after epoch 1: it has tickets of its own, and the
\* ids of epoch 1 are still in TicketsIds with a count of 0 and without bodies.
C16_Witness ==
    /\ EpochIndex = 2
    /\ TicketsMeta.tickets_count[0] > 0
    /\ TicketsMeta.tickets_count[1] = 0
    /\ TicketsIds[1] # <<>>
    /\ Range(TicketsIds[1]) \cap TicketsData = {}

C18_ThresholdConfigIsNextEpochsConfig ==
    [][ /\ PlainRotation => EpochConfig' = SubmitConfig
        /\ ~Rotation => SubmitConfig' = SubmitConfig ]_vars

\* Epoch 1 is current under the genesis configuration although a change was
\* planned during epoch 0, and it holds ticket 3, which only the genesis
\* threshold admits.
C18_Witness ==
    /\ EpochIndex = 1
    /\ NextEpochConfig # None
    /\ EpochConfig = GenesisEpochConfig
    /\ MaxTicketId - 1 \in Range(StoredTickets(1))
    /\ MaxTicketId - 1 >=
          ticket_id_threshold(Unwrap(NextEpochConfig).redundancy_factor, EpochLength,
                              Unwrap(NextEpochConfig).attempts_number, Len(NextAuthorities))

(***************************************************************************)
(* C19.  On a rotation that skips no epoch, the new current epoch is the   *)
(* old next epoch: current_epoch() after the rotation equals next_epoch()  *)
(* evaluated just before it, in index, start, length, randomness, config   *)
(* and (the internal trigger passing the stored NextAuthorities)           *)
(* authorities.                                                            *)
(***************************************************************************)
C19_NextEpochBecomesCurrent ==
    [][ PlainRotation =>
          /\ current_epoch'.index = next_epoch.index
          /\ current_epoch'.start = next_epoch.start
          /\ current_epoch'.length = next_epoch.length
          /\ current_epoch'.randomness = next_epoch.randomness
          /\ current_epoch'.config = next_epoch.config
          /\ current_epoch'.authorities = next_epoch.authorities ]_vars

\* The second of two rotations that skip nothing has promoted a randomness
\* other than the genesis one and a configuration other than the genesis one.
C19_Witness ==
    /\ EpochIndex = 2
    /\ pc = "block"
    /\ slot_index(CurrentSlot, EpochIndex, GenesisSlot) = 0
    /\ current_epoch.randomness # 0
    /\ current_epoch.config # GenesisEpochConfig

(***************************************************************************)
(* C20.  EpochIndex never decreases, changes at most once within a block   *)
(* and is written only by enact_epoch_change: it changes only in the       *)
(* on_initialize step that opens a block, to the index enact_epoch_change  *)
(* computes, and submit_tickets, plan_config_change, on_finalize,          *)
(* slot_ticket_id and validate_unsigned, which all run with the block      *)
(* open or leave the block state alone, do not change it.                  *)
(***************************************************************************)
C20_EpochIndexOnlyAdvancesAtRotation ==
    [][ /\ EpochIndex' >= EpochIndex
        /\ EpochIndex' # EpochIndex =>
              /\ pc = "idle" /\ pc' = "block"
              /\ should_end_epoch(block_number', CurrentSlot', GenesisSlot')
              /\ EpochIndex' =
                    enact_epoch_change(NextAuthorities, NextAuthorities, CurrentSlot').EpochIndex
        /\ ~(pc = "idle" /\ pc' = "block") => EpochIndex' = EpochIndex ]_vars

\* Epoch 2 with a block closed in which tickets were admitted and a
\* configuration change planned, and after a validation of an unsigned call.
C20_Witness ==
    /\ EpochIndex = 2
    /\ pc = "idle"
    /\ admitted # {}
    /\ PendingEpochConfigChange # None
    /\ validity # None

(***************************************************************************)
(* C21.  ClaimTemporaryData is Some exactly while a block is open, from    *)
(* the end of on_initialize to on_finalize of the same block, and None at  *)
(* every block boundary; only on_initialize and on_finalize change it.     *)
(***************************************************************************)
C21_ClaimHeldExactlyInsideBlock ==
    /\ []((pc = "block") <=> (ClaimTemporaryData # None))
    /\ [][ ClaimTemporaryData' # ClaimTemporaryData => pc' # pc ]_vars

\* A block of epoch 1 is open and holds its claim while tickets have been
\* admitted, a configuration change planned and an unsigned call validated.
C21_Witness ==
    /\ pc = "block"
    /\ ClaimTemporaryData # None
    /\ EpochIndex = 1
    /\ admitted # {}
    /\ PendingEpochConfigChange # None
    /\ validity # None

(***************************************************************************)
(* C22.  The RandomnessAccumulator is the left fold of the per-block slot  *)
(* randomness values in block order, seeded with the genesis value: it     *)
(* starts as the seed, on_finalize of each block replaces it by            *)
(* H(accumulator, r) with r the slot randomness of that block, and no      *)
(* other step (rotation, skipped epochs, ticket operations) changes it.    *)
(***************************************************************************)
C22_AccumulatorIsLeftFold ==
    /\ (block_number = 0 => RandomnessAccumulator = 0)
    /\ [][ IF pc = "block" /\ pc' = "idle"
           THEN RandomnessAccumulator' =
                  blake2_256(<< RandomnessAccumulator,
                                make_bytes(Unwrap(ClaimTemporaryData),
                                           slot_claim_input(CurrentRandomness, CurrentSlot,
                                                            EpochIndex)) >>)
           ELSE RandomnessAccumulator' = RandomnessAccumulator ]_vars

\* A block of epoch 2 is closed with tickets admitted in it and an accumulator
\* other than the seed.
C22_Witness ==
    /\ EpochIndex = 2
    /\ pc = "idle"
    /\ admitted # {}
    /\ RandomnessAccumulator # 0

(***************************************************************************)
(* C23.  At each rotation the randomness folded with the accumulator to    *)
(* produce the new NextRandomness is the randomness of the epoch that has  *)
(* just ended, the CurrentRandomness held before the rotation.             *)
(***************************************************************************)
C23_FoldsEndedEpochRandomness ==
    [][ Rotation =>
          NextRandomness' =
            blake2_256(<< RandomnessAccumulator, CurrentRandomness, EpochIndex' + 1 >>) ]_vars

(***************************************************************************)
(* C23, as the code has it.  At each rotation the randomness folded with   *)
(* the accumulator to produce the new NextRandomness is the randomness of  *)
(* the epoch that has just begun: the NextRandomness held before the       *)
(* rotation, which the rotation stores as CurrentRandomness.               *)
(***************************************************************************)
C23_FoldsBegunEpochRandomness ==
    [][ Rotation =>
          NextRandomness' =
            blake2_256(<< RandomnessAccumulator, NextRandomness, EpochIndex' + 1 >>) ]_vars

\* The first block of an epoch, still open: the next randomness is the digest
\* of an accumulator other than the seed and of a current randomness that
\* differs from it.
C23_Witness ==
    /\ pc = "block"
    /\ EpochIndex >= 1
    /\ slot_index(CurrentSlot, EpochIndex, GenesisSlot) = 0
    /\ RandomnessAccumulator # 0
    /\ CurrentRandomness # 0
    /\ NextRandomness # CurrentRandomness
    /\ NextRandomness =
          blake2_256(<< RandomnessAccumulator, CurrentRandomness, EpochIndex + 1 >>)

(***************************************************************************)
(* C24.  At each rotation CurrentRandomness becomes the NextRandomness     *)
(* held before it and NextRandomness becomes H(RandomnessAccumulator, new  *)
(* CurrentRandomness, new EpochIndex + 1).  Neither value nor the epoch    *)
(* index changes while the block is open, and on_finalize of the block     *)
(* folds the per-block randomness made from them: the new                  *)
(* CurrentRandomness and the new EpochIndex in a rotation block.           *)
(***************************************************************************)
C24_RotationPromotesRandomness ==
    [][ /\ Rotation =>
              /\ CurrentRandomness' = NextRandomness
              /\ RandomnessAccumulator' = RandomnessAccumulator
              /\ NextRandomness' =
                    blake2_256(<< RandomnessAccumulator', CurrentRandomness', EpochIndex' + 1 >>)
        /\ pc = "block" =>
              /\ CurrentRandomness' = CurrentRandomness
              /\ NextRandomness' = NextRandomness
              /\ EpochIndex' = EpochIndex
              /\ CurrentSlot' = CurrentSlot
        /\ pc = "block" /\ pc' = "idle" =>
              RandomnessAccumulator' =
                blake2_256(<< RandomnessAccumulator,
                              make_bytes(Unwrap(ClaimTemporaryData),
                                         slot_claim_input(CurrentRandomness', CurrentSlot',
                                                          EpochIndex')) >>) ]_vars

\* The first block of an epoch other than the genesis one has been closed
\* with a current randomness and an accumulator other than the genesis values.
C24_Witness ==
    /\ pc = "idle"
    /\ EpochIndex >= 2
    /\ slot_index(CurrentSlot, EpochIndex, GenesisSlot) = 0
    /\ CurrentRandomness # 0
    /\ NextRandomness # CurrentRandomness
    /\ RandomnessAccumulator # 0

(***************************************************************************)
(* C25.  enact_epoch_change called with next_authorities equal to          *)
(* authorities leaves RingVerifierData unchanged; under                    *)
(* EpochChangeInternalTrigger the authority sets and the verifier never    *)
(* change after genesis.                                                   *)
(***************************************************************************)
C25_EqualAuthoritiesKeepVerifier ==
    [][ /\ Rotation /\ NextAuthorities' = Authorities' => RingVerifierData' = RingVerifierData
        /\ EpochChangeTrigger = "Internal" =>
              UNCHANGED << Authorities, NextAuthorities, RingVerifierData >> ]_vars

\* An epoch change has stored one list, other than the genesis one, as both
\* authority sets and the verifier is still the genesis one.
C25_Witness ==
    /\ EpochIndex >= 1
    /\ Authorities = NextAuthorities
    /\ Authorities # GenesisAuthorities
    /\ RingVerifierData = Some(verifier_data(GenesisAuthorities))

\* The verifier submit_tickets uses is the one derived from the stored NextAuthorities.
VerifierOfNextAuthorities == RingVerifierData = Some(verifier_data(NextAuthorities))

C27_NoRingContextNoTickets ==
    RingContext = None =>
        /\ RingVerifierData = None
        /\ \A authorities \in AuthoritySets :
              update_ring_verifier(authorities) = RingVerifierData
        /\ \A origin \in Origins : \A in \in ConfigSubmitInputs :
              LET r == submit_tickets(origin, in[2])
              IN /\ r.ret # "Ok"
                 /\ origin = "None" => r.ret = "Ring verifier key not initialized"
                 /\ r.data = TicketsData
                 /\ r.meta = TicketsMeta
                 /\ r.segs = UnsortedSegments
        /\ TicketsData = {}
        /\ TicketsMeta = DefaultTicketsMeta
        /\ UnsortedSegments = <<>>
        /\ SortedCandidates = <<>>
        /\ \A tag \in Tags : TicketsIds[tag] = <<>>

\* Without a ring context, an epoch change with differing authority lists has
\* been enacted and a block is open in the submission window of epoch 1.
C27_Witness ==
    /\ RingContext = None
    /\ EpochIndex = 1
    /\ NextAuthorities # Authorities
    /\ SubmitEnabled

\* Every variable but PendingEpochConfigChange.
allButPending ==
    << block_number, pc, EpochIndex, Authorities, NextAuthorities, GenesisSlot, CurrentSlot,
       EpochConfig, NextEpochConfig, TicketsMeta, TicketsIds, TicketsData, UnsortedSegments,
       SortedCandidates, RingContext, RingVerifierData, ClaimTemporaryData, CurrentRandomness,
       NextRandomness, RandomnessAccumulator, EpochChangeTrigger, Digest, admitted,
       validity >>

(***************************************************************************)
(* C28.  plan_config_change requires the root origin; with                 *)
(* redundancy_factor = 0 or attempts_number = 0 it fails with              *)
(* InvalidConfiguration and leaves PendingEpochConfigChange and all other  *)
(* state unchanged; otherwise it sets PendingEpochConfigChange to the      *)
(* given config, replacing any pending change, and changes neither         *)
(* EpochConfig nor NextEpochConfig.                                        *)
(***************************************************************************)
C28_PlanWritesOnlyValidPending ==
    /\ [](\A origin \in Origins : \A config \in PlanConfigs :
            LET r == plan_config_change(origin, config)
            IN /\ origin # "Root" =>
                     r.ret = "BadOrigin" /\ r.pending = PendingEpochConfigChange
               /\ origin = "Root"
                     /\ (config.redundancy_factor = 0 \/ config.attempts_number = 0) =>
                     r.ret = "InvalidConfiguration" /\ r.pending = PendingEpochConfigChange
               /\ origin = "Root" /\ config.redundancy_factor # 0
                     /\ config.attempts_number # 0 =>
                     r.ret = "Ok" /\ r.pending = Some(config))
    /\ [][ pc = "block" /\ pc' = "block" =>
            /\ UNCHANGED allButPending
            /\ \/ PendingEpochConfigChange' = PendingEpochConfigChange
               \/ \E config \in PlanConfigs :
                     /\ config.redundancy_factor # 0
                     /\ config.attempts_number # 0
                     /\ PendingEpochConfigChange' = Some(config) ]_vars

\* In epoch 1 a change planned in epoch 0 is the next configuration and a
\* different change is pending.
C28_Witness ==
    /\ pc = "block"
    /\ EpochIndex = 1
    /\ NextEpochConfig # None
    /\ PendingEpochConfigChange # None
    /\ PendingEpochConfigChange # NextEpochConfig
    /\ EpochConfig = GenesisEpochConfig

(***************************************************************************)
(* C29.  should_end_epoch(block_num) is true if and only if block_num > 1  *)
(* and current_slot_index >= EpochLength.  With EpochChangeInternalTrigger *)
(* on_initialize enacts a rotation exactly in the blocks where it is true, *)
(* never in block 1; with EpochChangeExternalTrigger on_initialize never   *)
(* enacts a rotation.                                                      *)
(***************************************************************************)
C29_InitializeRotatesWhenEpochEnded ==
    /\ [](should_end_epoch(block_number, CurrentSlot, GenesisSlot)
            <=> (block_number > 1 /\ current_slot_index >= EpochLength))
    /\ [][ pc = "idle" /\ pc' = "block" =>
            /\ EpochChangeTrigger = "Internal" =>
                  (Rotation <=>
                     /\ block_number' > 1
                     /\ slot_index(CurrentSlot', EpochIndex, GenesisSlot') >= EpochLength)
            /\ block_number' = 1 => ~Rotation
            /\ EpochChangeTrigger = "External" =>
                  /\ ~Rotation
                  /\ UNCHANGED << epochVars, ticketVars >> ]_vars

\* With the external trigger, a block after the first is open in a slot past
\* the end of epoch 0 and the epoch has not changed.
C29_Witness ==
    /\ EpochChangeTrigger = "External"
    /\ pc = "block"
    /\ block_number > 1
    /\ EpochIndex = 0
    /\ current_slot_index >= EpochLength
    /\ should_end_epoch(block_number, CurrentSlot, GenesisSlot)

\* on_finalize closes a block produced in the last slot of the current epoch.
LastSlotFinalize ==
    pc = "block" /\ pc' = "idle" /\ current_slot_index = EpochLength - 1

\* The number of unsorted segments that hold a ticket.
HeldSegments == Cardinality({ k \in DOMAIN UnsortedSegments : UnsortedSegments[k] # <<>> })

(***************************************************************************)
(* C30.  If a block is produced in the last slot of an epoch (slot index   *)
(* EpochLength - 1), then by the end of its on_finalize all unsorted       *)
(* segments have been consumed and the next epoch's sorted list has been   *)
(* written: no unsorted ticket is counted, and no partial result is kept   *)
(* aside.  The pass of any block consumes at most                          *)
(* ceil(unsorted_tickets_count / (SEGMENT_MAX_SIZE * slots_left))          *)
(* segments.                                                               *)
(***************************************************************************)
C30_LastSlotCompletesSort ==
    [][ /\ LastSlotFinalize =>
              /\ HeldSegments' = 0
              /\ TicketsMeta'.unsorted_tickets_count = 0
              /\ SortedCandidates' = <<>>
        /\ pc = "block" /\ pc' = "idle" /\ SortWindowOpen
              /\ TicketsMeta.unsorted_tickets_count # 0 =>
              HeldSegments - HeldSegments' <=
                DivCeil(TicketsMeta.unsorted_tickets_count,
                        SEGMENT_MAX_SIZE *
                          (IF EpochLength >= current_slot_index
                           THEN EpochLength - current_slot_index ELSE 1)) ]_vars

\* Whether every segment append_tickets(tickets) builds fits its bound before
\* BoundedVec::truncate_from is applied to it.
RECURSIVE AppendFits(_, _, _, _)
AppendFits(tickets, segment_idx, metadata, segs) ==
    IF tickets = <<>> THEN TRUE
    ELSE
      LET rem == metadata.unsorted_tickets_count % SEGMENT_MAX_SIZE
          todo == SegmentTodo(Len(tickets), rem)
          segment == SegmentGet(segs, segment_idx) \o SubSeq(tickets, 1, todo)
      IN /\ Len(segment) <= SEGMENT_MAX_SIZE
         /\ AppendFits(SubSeq(tickets, todo + 1, Len(tickets)), segment_idx + 1,
                       [metadata EXCEPT !.unsorted_tickets_count = (@ + todo) % U32],
                       SegmentInsert(segs, segment_idx, Prefix(segment, SEGMENT_MAX_SIZE)))

\* The candidates a sort_tickets call holds when it reaches the end of its
\* loop and final sort, before it stores them.
CandidatesBeforeStore(max_segments, metadata, store) ==
    LET unsorted_segments_count == DivCeil(metadata.unsorted_tickets_count, SEGMENT_MAX_SIZE)
        segments == Min(max_segments, unsorted_segments_count)
        st == ConsumeSegments(segments, MaxTicketsFor,
                [ unsorted_segments_count |-> unsorted_segments_count,
                  unsorted_tickets_count |-> metadata.unsorted_tickets_count,
                  segs |-> store.segs,
                  cands |-> store.cands,
                  data |-> store.data,
                  require_sort |-> segments # 0,
                  upper_bound |-> InitialUpperBound(store.cands, MaxTicketsFor) ])
    IN FinalSort(st.require_sort, st.cands)

(***************************************************************************)
(* C31.  Every container is within its bound and the truncations of the    *)
(* bounded containers never discard a ticket: each UnsortedSegments entry  *)
(* has at most SEGMENT_MAX_SIZE ids, SortedCandidates has at most          *)
(* EpochLength ids, tickets_count[i] <= EpochLength for both halves, and   *)
(* whenever append_tickets or sort_tickets stores a vector through         *)
(* truncate_from the vector already fits.                                  *)
(***************************************************************************)
C31_ContainersWithinBounds ==
    /\ \A k \in DOMAIN UnsortedSegments : Len(UnsortedSegments[k]) <= SEGMENT_MAX_SIZE
    /\ Len(SortedCandidates) <= EpochLength
    /\ \A tag \in Tags : TicketsMeta.tickets_count[tag] <= EpochLength
    /\ SubmitEnabled /\ RingVerifierData # None =>
          \A batch \in Batches :
              AppendFits(AcceptedIds(batch),
                         TicketsMeta.unsorted_tickets_count \div SEGMENT_MAX_SIZE,
                         TicketsMeta, UnsortedSegments)
    /\ \A max_segments \in SortPasses :
          Len(CandidatesBeforeStore(max_segments, TicketsMeta, Store)) <= MaxTicketsFor

\* In the sorting half of an epoch a full segment waits while a partial
\* result of as many candidates as the epoch has slots is kept aside.
C31_Witness ==
    /\ SortWindowOpen
    /\ \E k \in DOMAIN UnsortedSegments : Len(UnsortedSegments[k]) = SEGMENT_MAX_SIZE
    /\ SortedCandidates # <<>>

(***************************************************************************)
(* C32.  The outcome of a rotation is determined by the set of ids         *)
(* admitted for the epoch alone: whatever the order, the batches, the      *)
(* blocks and the sort passes that brought them in, a rotation that skips  *)
(* no epoch stores for the new epoch a tickets_count of min(EpochLength,   *)
(* k) for k admitted ids, and the list of that length is the smallest ids  *)
(* of the set in increasing order.                                         *)
(***************************************************************************)
C32_OutcomeIsFunctionOfAdmittedSet ==
    [][ PlainRotation =>
          /\ TicketsMeta'.tickets_count[EpochIndex' % 2] = Min(Cardinality(admitted), EpochLength)
          /\ Prefix(TicketsIds'[EpochIndex' % 2], Min(Cardinality(admitted), EpochLength))
                = Smallest(admitted, EpochLength) ]_vars

\* The last log of the header digest.
LastLog(logs) == logs[Len(logs)]

\* The logs the block's header held before the step's on_initialize or
\* enact_epoch_change ran: none when the step opens the block.
LogsBefore == IF pc = "idle" THEN <<>> ELSE Digest

(***************************************************************************)
(* C33.  on_initialize of block 1 sets GenesisSlot and CurrentSlot to the  *)
(* same slot, leaves EpochIndex at 0 and deposits one NextEpochDescriptor. *)
(* Every enact_epoch_change deposits exactly one NextEpochDescriptor after *)
(* the logs already in the header; its randomness is the new               *)
(* NextRandomness, its authorities the new NextAuthorities and its config  *)
(* the pending config the rotation promoted (None if none was pending).    *)
(* GenesisSlot is never written after block 1.                             *)
(***************************************************************************)
C33_DescriptorsAndGenesisSlot ==
    /\ [][ block_number = 0 /\ block_number' = 1 =>
             /\ GenesisSlot' = CurrentSlot'
             /\ EpochIndex' = 0
             /\ Len(Digest') = 1 ]_vars
    /\ [][ Rotation =>
             /\ Len(Digest') = Len(LogsBefore) + 1
             /\ SubSeq(Digest', 1, Len(LogsBefore)) = LogsBefore
             /\ LastLog(Digest').randomness = NextRandomness'
             /\ LastLog(Digest').authorities = NextAuthorities'
             /\ LastLog(Digest').config = PendingEpochConfigChange
             /\ LastLog(Digest').config = NextEpochConfig' ]_vars
    /\ [][ block_number >= 1 => GenesisSlot' = GenesisSlot ]_vars

\* A block whose header holds the descriptor of a rotation that promoted a
\* pending configuration and installed authorities differing from the
\* genesis ones, on a chain whose first slot was not slot 0.
C33_Witness ==
    /\ block_number > 1
    /\ EpochIndex > 0
    /\ GenesisSlot > 0
    /\ Len(Digest) = 1
    /\ Digest[1].config # None
    /\ Digest[1].config = NextEpochConfig
    /\ Digest[1].authorities # GenesisAuthorities
    /\ Digest[1].randomness = NextRandomness

(***************************************************************************)
(* Genesis phase: the authorities may be initialized before the genesis    *)
(* build, e.g. by a session pallet.                                        *)
(***************************************************************************)
\* Authority lists offered to initialize_genesis_authorities.
AuthorityLists == { <<>>, GenesisAuthorities, <<2, 3>> }

\* A variant of initialize_genesis_authorities that writes whatever it is given.
initialize_genesis_authorities_Overwrite(authorities) ==
    [ panic |-> FALSE, Authorities |-> authorities, NextAuthorities |-> authorities ]

\* initialize_genesis_authorities(authorities): whether it panics, and the
\* values of Authorities and NextAuthorities it leaves.
initialize_genesis_authorities(authorities) ==
    LET prev_authorities == Authorities
    IN IF prev_authorities # <<>>
       THEN [ panic |-> prev_authorities # authorities,
              Authorities |-> Authorities, NextAuthorities |-> NextAuthorities ]
       ELSE [ panic |-> FALSE, Authorities |-> authorities, NextAuthorities |-> authorities ]

\* The storage before the genesis build: every item at its default.
PreGenesis ==
    /\ block_number = 0
    /\ pc = "genesis"
    /\ EpochIndex = 0
    /\ Authorities = <<>>
    /\ NextAuthorities = <<>>
    /\ GenesisSlot = 0
    /\ CurrentSlot = 0
    /\ EpochConfig = [redundancy_factor |-> 0, attempts_number |-> 0]
    /\ NextEpochConfig = None
    /\ PendingEpochConfigChange = None
    /\ TicketsMeta = DefaultTicketsMeta
    /\ TicketsIds = [t \in Tags |-> <<>>]
    /\ TicketsData = {}
    /\ UnsortedSegments = <<>>
    /\ SortedCandidates = <<>>
    /\ RingContext = None
    /\ RingVerifierData = None
    /\ ClaimTemporaryData = None
    /\ CurrentRandomness = 0
    /\ NextRandomness = 0
    /\ RandomnessAccumulator = 0
    /\ EpochChangeTrigger = "Internal"
    /\ Digest = <<>>
    /\ admitted = {}
    /\ validity = None

\* A call of initialize_genesis_authorities during the genesis phase; a panic
\* aborts the construction of the genesis state.
InitializeGenesisAuthorities(authorities) ==
    LET r == initialize_genesis_authorities(authorities)
    IN /\ pc = "genesis"
       /\ pc' = IF r.panic THEN "panicked" ELSE pc
       /\ Authorities' = r.Authorities
       /\ NextAuthorities' = r.NextAuthorities
       /\ UNCHANGED << block_number, GenesisSlot, CurrentSlot, ClaimTemporaryData,
                       RandomnessAccumulator, Digest, ticketVars, constVars, admitted,
                       validity, EpochIndex, CurrentRandomness, NextRandomness, EpochConfig,
                       NextEpochConfig, PendingEpochConfigChange, RingVerifierData >>

\* GenesisConfig::build with `authorities`; `ring_context` is what the build
\* puts in RingContext (None without the dummy ring context feature).
GenesisBuild(authorities, ring_context) ==
    LET r == initialize_genesis_authorities(authorities)
    IN /\ pc = "genesis"
       /\ pc' = IF r.panic THEN "panicked" ELSE "idle"
       /\ EpochConfig' = GenesisEpochConfig
       /\ Authorities' = r.Authorities
       /\ NextAuthorities' = r.NextAuthorities
       /\ RingContext' = IF r.panic THEN RingContext ELSE ring_context
       /\ RingVerifierData' = IF r.panic \/ ring_context = None THEN RingVerifierData
                              ELSE Some(verifier_data(authorities))
       /\ UNCHANGED << block_number, GenesisSlot, CurrentSlot, ClaimTemporaryData,
                       RandomnessAccumulator, Digest, ticketVars, EpochChangeTrigger,
                       admitted, validity, EpochIndex, CurrentRandomness, NextRandomness,
                       NextEpochConfig, PendingEpochConfigChange >>

\* The genesis phase followed by blocks and planned configuration changes.
NextGenesis ==
    \/ \E authorities \in AuthorityLists : InitializeGenesisAuthorities(authorities)
    \/ \E authorities \in AuthorityLists : \E ring_context \in {None, Some("ring_ctx")} :
          GenesisBuild(authorities, ring_context)
    \/ \E slot \in LateSlots : OnInitialize(slot, 0)
    \/ OnFinalize
    \/ \E config \in Configs : PlanConfigChange("Root", config)

SpecGenesis == PreGenesis /\ [][NextGenesis]_vars

(***************************************************************************)
(* C34.  initialize_genesis_authorities is idempotent.  The first call     *)
(* with a non-empty list writes the list to both Authorities and           *)
(* NextAuthorities; a later call with the same list changes nothing; a     *)
(* later call with a different list panics and leaves the stored           *)
(* authorities as they were.                                               *)
(***************************************************************************)
C34_GenesisAuthoritiesIdempotent ==
    /\ [](\A authorities \in AuthorityLists :
            LET r == initialize_genesis_authorities(authorities)
            IN /\ Authorities = <<>> /\ authorities # <<>> =>
                    /\ ~r.panic
                    /\ r.Authorities = authorities
                    /\ r.NextAuthorities = authorities
               /\ Authorities # <<>> /\ authorities = Authorities =>
                    /\ ~r.panic
                    /\ r.Authorities = Authorities
                    /\ r.NextAuthorities = NextAuthorities
               /\ Authorities # <<>> /\ authorities # Authorities =>
                    /\ r.panic
                    /\ r.Authorities = Authorities
                    /\ r.NextAuthorities = NextAuthorities)
    /\ [][ pc = "genesis" /\ Authorities # <<>> =>
             /\ Authorities' = Authorities
             /\ NextAuthorities' = NextAuthorities
             /\ (pc' = "panicked" \/ Authorities' = NextAuthorities') ]_vars
    /\ [][ pc = "genesis" /\ Authorities = <<>> =>
             Authorities' = NextAuthorities' /\ pc' # "panicked" ]_vars

\* The genesis construction aborted by a call with a list differing from the
\* authorities an earlier call had written to both items.
C34_Witness ==
    /\ pc = "panicked"
    /\ Authorities # <<>>
    /\ NextAuthorities = Authorities

\* The packed layout of `count` unsorted ids: every segment below
\* count / SEGMENT_MAX_SIZE is full, the one at that index holds the
\* remainder and no higher segment holds an id.
PackedLayout(count, segs) ==
    \A k \in DOMAIN segs \cup (0 .. (count \div SEGMENT_MAX_SIZE)) :
        Len(SegmentGet(segs, k)) =
            IF k < count \div SEGMENT_MAX_SIZE THEN SEGMENT_MAX_SIZE
            ELSE IF k = count \div SEGMENT_MAX_SIZE THEN count % SEGMENT_MAX_SIZE
            ELSE 0

\* The ids of all segments in the order of their indices.
AllSegments(segs) == Flatten(segs, MaxTicketId + 2)

(***************************************************************************)
(* C35.  append_tickets(batch) stores every id of the batch, in order,     *)
(* after the ids already held, and increases unsorted_tickets_count by     *)
(* exactly the length of the batch; it keeps the packed layout (segments   *)
(* below floor(count / SEGMENT_MAX_SIZE) full, the next one holding        *)
(* count mod SEGMENT_MAX_SIZE ids, no higher segment non-empty).           *)
(* sort_tickets, which pops the highest-indexed segment first, keeps the   *)
(* layout too, whatever the number of segments it is asked to consume.     *)
(***************************************************************************)
C35_AppendAndSortKeepPackedLayout ==
    /\ SubmitEnabled /\ RingVerifierData # None =>
          \A batch \in Batches :
              LET r == append_tickets(AcceptedIds(batch), TicketsMeta, UnsortedSegments)
              IN /\ r.meta.unsorted_tickets_count
                        = TicketsMeta.unsorted_tickets_count + Len(AcceptedIds(batch))
                 /\ AllSegments(r.segs) = AllSegments(UnsortedSegments) \o AcceptedIds(batch)
                 /\ PackedLayout(TicketsMeta.unsorted_tickets_count, UnsortedSegments)
                        => PackedLayout(r.meta.unsorted_tickets_count, r.segs)
    /\ PackedLayout(TicketsMeta.unsorted_tickets_count, UnsortedSegments) =>
          \A max_segments \in SortPasses :
              LET r == sort_tickets(max_segments, NextTag, TicketsMeta, Store)
              IN PackedLayout(r.meta.unsorted_tickets_count, r.segs)

\* A full segment and a partial one are held in the packed layout while a
\* batch with a new id can still be submitted.
C35_Witness ==
    /\ SubmitEnabled /\ RingVerifierData # None
    /\ TicketsMeta.unsorted_tickets_count = SEGMENT_MAX_SIZE + 1
    /\ PackedLayout(TicketsMeta.unsorted_tickets_count, UnsortedSegments)
    /\ \E batch \in Batches : AcceptedIds(batch) # <<>>

\* The keys of the segments a sort_tickets call took out of `segs`, `after`
\* being the segments it left.
TakenSegments(segs, after) == { k \in DOMAIN segs : k \notin DOMAIN after }

\* The ids of the segments a sort_tickets call took.
TakenIds(segs, after) == UNION { Range(segs[k]) : k \in TakenSegments(segs, after) }

\* Some unsorted segment still holds a ticket.
SegmentsRemain(segs) == \E k \in DOMAIN segs : segs[k] # <<>>

(***************************************************************************)
(* C36.  A call of sort_tickets takes at most max_segments segments.  If   *)
(* segments remain after it, it leaves TicketsIds and tickets_count as     *)
(* they were and stores in SortedCandidates a strictly increasing list of  *)
(* at most EpochLength ids: the smallest of the ids it consumed in this    *)
(* call and of the candidates kept by the calls before.  Every id it       *)
(* drops has no TicketsData entry afterwards, and every id it keeps still  *)
(* has its entry.                                                          *)
(***************************************************************************)
C36_PartialSortKeepsSmallest ==
    \A max_segments \in SortPasses :
        LET r == sort_tickets(max_segments, NextTag, TicketsMeta, Store)
            consumed == Range(SortedCandidates) \cup TakenIds(UnsortedSegments, r.segs)
            kept == Smallest(consumed, EpochLength)
        IN /\ Cardinality(TakenSegments(UnsortedSegments, r.segs)) <= max_segments
           /\ SegmentsRemain(r.segs) =>
                 /\ r.ids = TicketsIds
                 /\ r.meta.tickets_count = TicketsMeta.tickets_count
                 /\ r.cands = kept
                 /\ StrictlyIncreasing(r.cands)
                 /\ Len(r.cands) <= EpochLength
           /\ \A id \in consumed \ Range(kept) : id \notin r.data
           /\ \A id \in Range(kept) : id \in r.data

\* Two full segments are waiting: a pass of one segment leaves a segment
\* behind and a partial result, and a pass of both drops an id.
C36_Witness ==
    /\ \E max_segments \in SortPasses :
          LET r == sort_tickets(max_segments, NextTag, TicketsMeta, Store)
          IN /\ max_segments >= 1
             /\ SegmentsRemain(r.segs)
             /\ r.cands # <<>>
    /\ LET r == sort_tickets(U32 - 1, NextTag, TicketsMeta, Store)
           consumed == Range(SortedCandidates) \cup TakenIds(UnsortedSegments, r.segs)
       IN /\ consumed \ Range(Smallest(consumed, EpochLength)) # {}
          /\ ~SegmentsRemain(r.segs)

\* The ticket storage as a lookup finds it.
TicketStore == [meta |-> TicketsMeta] @@ Store

\* What slot_ticket_id leaves of the ticket storage.
StoreAfter(r) == [meta |-> r.meta, ids |-> r.ids, data |-> r.data, segs |-> r.segs,
                  cands |-> r.cands]

(***************************************************************************)
(* C37.  slot_ticket_id returns None before the first block is             *)
(* initialized, for every slot earlier than the start of the current       *)
(* epoch and for every slot at or beyond the start of the epoch after      *)
(* next.  For a slot of the current epoch it changes no storage.  For a    *)
(* slot of the next epoch the only change is the draining of the unsorted  *)
(* tickets into the next epoch's half: nothing changes when no ticket is   *)
(* pending in a segment or among the candidates; otherwise no segment and  *)
(* no candidate is left, the next epoch's half holds the smallest pending  *)
(* ids, the bodies of the other pending ids are removed, and the current   *)
(* epoch's half is as it was.                                              *)
(***************************************************************************)
C37_LookupNoneCasesAndFrame ==
    \A slot \in LookupSlots :
        LET r == slot_ticket_id(slot)
            start == epoch_start(EpochIndex, GenesisSlot)
            kept == Smallest(PendingIds, EpochLength)
        IN /\ block_number = 0 =>
                 r.ret = None /\ StoreAfter(r) = TicketStore
           /\ block_number >= 1 /\ slot < start =>
                 r.ret = None /\ StoreAfter(r) = TicketStore
           /\ block_number >= 1 /\ slot >= start + 2 * EpochLength =>
                 r.ret = None /\ StoreAfter(r) = TicketStore
           /\ block_number >= 1 /\ start <= slot /\ slot < start + EpochLength =>
                 StoreAfter(r) = TicketStore
           /\ /\ block_number >= 1
              /\ start + EpochLength <= slot
              /\ slot < start + 2 * EpochLength
              => IF PendingIds = {}
                 THEN StoreAfter(r) = TicketStore
                 ELSE /\ ~SegmentsRemain(r.segs)
                      /\ r.cands = <<>>
                      /\ r.meta.tickets_count[NextTag] = Len(kept)
                      /\ Prefix(r.ids[NextTag], Len(kept)) = kept
                      /\ r.data = TicketsData \ (PendingIds \ Range(kept))
                      /\ r.meta.tickets_count[CurrentTag] = TicketsMeta.tickets_count[CurrentTag]
                      /\ r.ids[CurrentTag] = TicketsIds[CurrentTag]

\* Epoch lengths the index map is examined for, odd and even.
MaxEpochLength == 7
EpochLengths == 1 .. MaxEpochLength

\* The slot indices of the current epoch whose lookup returns the ticket
\* stored at index k of the current epoch's half.
SlotsOfTicket(k) ==
    { i \in 0 .. EpochLength - 1 :
        /\ get_ticket_idx(i) = k
        /\ slot_ticket_id(CurrentEpochSlot(i)).ret = Some(TicketsIds[CurrentTag][k + 1]) }

(***************************************************************************)
(* C38.  The outside-in index map (2 * i + 1 for i < EpochLength / 2,      *)
(* 2 * (EpochLength - 1 - i) otherwise) is a bijection from the slot       *)
(* indices 0 .. EpochLength - 1 onto the ticket indices                    *)
(* 0 .. EpochLength - 1, for odd and for even epoch lengths.  Hence no two *)
(* slots of an epoch are given the same ticket, and every stored ticket    *)
(* is given to exactly one slot.                                           *)
(***************************************************************************)
C38_IndexMapIsBijection ==
    /\ \A epoch_len \in EpochLengths :
          /\ \A i \in 0 .. epoch_len - 1 : ticket_idx_of(epoch_len, i) \in 0 .. epoch_len - 1
          /\ \A i \in 0 .. epoch_len - 1 : \A j \in 0 .. epoch_len - 1 :
                ticket_idx_of(epoch_len, i) = ticket_idx_of(epoch_len, j) => i = j
          /\ \A k \in 0 .. epoch_len - 1 : \E i \in 0 .. epoch_len - 1 :
                ticket_idx_of(epoch_len, i) = k
    /\ \A i \in 0 .. EpochLength - 1 : \A j \in 0 .. EpochLength - 1 :
          LET a == slot_ticket_id(CurrentEpochSlot(i)).ret
              b == slot_ticket_id(CurrentEpochSlot(j)).ret
          IN i # j /\ a # None => a # b
    /\ \A k \in 0 .. TicketsMeta.tickets_count[CurrentTag] - 1 :
          k + 1 \in DOMAIN TicketsIds[CurrentTag] => Cardinality(SlotsOfTicket(k)) = 1

\* The current epoch has a ticket for each of its slots.
C38_Witness ==
    /\ pc = "block"
    /\ TicketsMeta.tickets_count[CurrentTag] = EpochLength
    /\ Len(TicketsIds[CurrentTag]) >= EpochLength
    /\ \A i \in 0 .. EpochLength - 1 : slot_ticket_id(CurrentEpochSlot(i)).ret # None

(***************************************************************************)
(* C39.  A lookup of a next-epoch slot at any point of the current epoch   *)
(* does not change which tickets the next epoch ends up with, even when    *)
(* further tickets are accepted after the lookup drained the segments:     *)
(* throughout the epoch the smallest EpochLength ids admitted for the next *)
(* epoch stay held for it, in the unsorted segments, among the sorted      *)
(* candidates or in the next epoch's half of TicketsIds.                   *)
(***************************************************************************)
C39_LookupKeepsNextEpochTickets ==
    Range(Smallest(admitted, EpochLength)) \subseteq Range(HeldForNextEpoch)

(***************************************************************************)
(* C40.  on_finalize never aborts while computing the size of its sort     *)
(* pass: slots_left is at least 1, so the divisor is not zero.             *)
(* Equivalently the slot index of the current slot is below EpochLength    *)
(* at every on_finalize, under the internal trigger and under an external  *)
(* trigger that may enact the rotation late.                               *)
(***************************************************************************)
C40_FinalizeNeverDividesByZero ==
    /\ [](pc = "block" => ~FinalizePanics)
    /\ [][ pc = "block" /\ pc' = "idle" => current_slot_index < EpochLength ]_vars

====
